---- MODULE Spec2Model ----
(***************************************************************************)
(* Model of the purchase-transaction API: the purchase store, the local   *)
(* exchange-rate store, the Treasury client and the currency conversion   *)
(* use case (ConvertTransactionUseCase.Execute), run by concurrent        *)
(* requests.                                                               *)
(*                                                                         *)
(* Times are records [y, m, d, tod]: a calendar day and a time of day      *)
(* (0 = midnight).  Money is an integer number of cents.  A rate is kept   *)
(* as the decimal the Treasury sent, an integer number of 1/RateScale      *)
(* units; arithmetic on amounts and rates is float64 arithmetic.  A        *)
(* currency code is a sequence of one-character strings.                   *)
(***************************************************************************)
EXTENDS Integers, Sequences, FiniteSets, TLC

(***************************************************************************)
(* Bounds of the model.                                                    *)
(***************************************************************************)
MaxRates == 2        \* capacity of the exchange-rate table
MaxRecords == 2      \* longest Treasury response (number of records)
MaxTx == 2           \* capacity of the purchase table

RateScale == 100     \* a rate r stands for the float r / RateScale
TicksPerDay == 2     \* times of day told apart: 0 = 00:00, 1 = later

Procs == {"r1", "r2"}          \* request slots of the server
Serial == {"r1"}               \* the slot used when requests come one by one
NilId == 0                     \* uuid.Nil

\* uuid.New(): an id that is not in use.  Ids are told apart, and compared
\* only to order rows of equal effective date, so the least free one stands
\* for any.
NewUUID(used) == CHOOSE n \in 1..(Cardinality(used) + 1) : n \notin used

\* entities/currency.go: currency constants
USD == <<"U", "S", "D">>
BRL == <<"B", "R", "L">>
EUR == <<"E", "U", "R">>

UpperLetters ==
  {"A", "B", "C", "D", "E", "F", "G", "H", "I", "J", "K", "L", "M",
   "N", "O", "P", "Q", "R", "S", "T", "U", "V", "W", "X", "Y", "Z"}

\* target_currency values a request can carry (the handler passes the raw
\* string on): well-formed codes, a lower-case code, a two-letter one, the
\* empty one
TargetInputs == {BRL, EUR, USD, <<"b", "r", "l">>, <<"B", "R">>, <<>>}

(***************************************************************************)
(* time.Time                                                               *)
(***************************************************************************)
Date(y, m, d, tod) == [y |-> y, m |-> m, d |-> d, tod |-> tod]

ZeroTime == Date(1, 1, 1, 0)

IsLeap(y) == (y % 4 = 0 /\ y % 100 # 0) \/ y % 400 = 0

DaysIn(y, m) ==
  IF m = 2 THEN (IF IsLeap(y) THEN 29 ELSE 28)
  ELSE IF m \in {4, 6, 9, 11} THEN 30 ELSE 31

\* position of a time on the time line (order-preserving)
Key(t) == ((t.y * 12 + (t.m - 1)) * 32 + t.d) * TicksPerDay + t.tod

Before(a, b) == Key(a) < Key(b)
After(a, b) == Key(a) > Key(b)

\* time.Time.AddDate(0, -6, 0): month arithmetic, then normalisation of a
\* day that the resulting month does not have (Aug 31 - 6 months = Mar 2/3)
SubSixMonths(t) ==
  LET m0 == t.m - 6
      y1 == IF m0 <= 0 THEN t.y - 1 ELSE t.y
      m1 == IF m0 <= 0 THEN m0 + 12 ELSE m0
      n  == DaysIn(y1, m1)
  IN IF t.d <= n
       THEN Date(y1, m1, t.d, t.tod)
       ELSE Date(y1, m1 + 1, t.d - n, t.tod)

\* time.Time.AddDate(0, 0, 1) and AddDate(0, 0, -1)
NextDay(t) ==
  IF t.d < DaysIn(t.y, t.m) THEN Date(t.y, t.m, t.d + 1, t.tod)
  ELSE IF t.m < 12 THEN Date(t.y, t.m + 1, 1, t.tod)
  ELSE Date(t.y + 1, 1, 1, t.tod)

PrevDay(t) ==
  IF t.d > 1 THEN Date(t.y, t.m, t.d - 1, t.tod)
  ELSE IF t.m > 1 THEN Date(t.y, t.m - 1, DaysIn(t.y, t.m - 1), t.tod)
  ELSE Date(t.y - 1, 12, 31, t.tod)

Midnight(t) == Date(t.y, t.m, t.d, 0)

(***************************************************************************)
(* entities: CurrencyCode, Money, Transaction, ExchangeRate                *)
(***************************************************************************)
\* CurrencyCode.IsValid: 3 characters, all in A-Z
IsValid(c) == Len(c) = 3 /\ \A i \in 1..Len(c) : c[i] \in UpperLetters

\* the letters in order, lower case and upper case
LowerAlphabet ==
  <<"a", "b", "c", "d", "e", "f", "g", "h", "i", "j", "k", "l", "m",
    "n", "o", "p", "q", "r", "s", "t", "u", "v", "w", "x", "y", "z">>
UpperAlphabet ==
  <<"A", "B", "C", "D", "E", "F", "G", "H", "I", "J", "K", "L", "M",
    "N", "O", "P", "Q", "R", "S", "T", "U", "V", "W", "X", "Y", "Z">>

\* A string is a sequence of characters; a character outside ASCII is
\* written by its code point: U+017F is the long s, whose upper case is S,
\* U+00E9 and U+00C9 are the e with acute accent in lower and upper case,
\* U+00A0 is the no-break space.
TwoByteChars == {"U+017F", "U+00E9", "U+00C9", "U+00A0"}

\* len(str): the bytes of the UTF-8 encoding
RECURSIVE ByteLen(_)
ByteLen(str) ==
  IF str = <<>> THEN 0
  ELSE (IF Head(str) \in TwoByteChars THEN 2 ELSE 1) + ByteLen(Tail(str))

\* characters strings.TrimSpace removes
WhiteSpace == {" ", "\t", "\n", "\r", "U+00A0"}

\* a strings.ToUpper that leaves the string as it is
ToUpperNone(str) == str

\* strings.ToUpper
ToUpper(str) ==
  [i \in 1..Len(str) |->
     IF str[i] = "U+017F" THEN "S"
     ELSE IF str[i] = "U+00E9" THEN "U+00C9"
     ELSE IF \E k \in 1..Len(LowerAlphabet) : LowerAlphabet[k] = str[i]
       THEN UpperAlphabet[CHOOSE k \in 1..Len(LowerAlphabet) : LowerAlphabet[k] = str[i]]
       ELSE str[i]]

\* strings.TrimSpace
RECURSIVE TrimSpace(_)
TrimSpace(str) ==
  IF str # <<>> /\ Head(str) \in WhiteSpace THEN TrimSpace(Tail(str))
  ELSE IF str # <<>> /\ str[Len(str)] \in WhiteSpace
    THEN TrimSpace(SubSeq(str, 1, Len(str) - 1))
  ELSE str

\* NewCurrencyCode: [code, err]
NewCurrencyCode(code) ==
  LET normalized == ToUpper(TrimSpace(code))
  IN IF ByteLen(normalized) # 3
       THEN [code |-> <<>>, err |-> <<"currency code must be exactly 3 characters">>]
     ELSE IF ~IsValid(normalized)
       THEN [code |-> <<>>, err |-> <<"invalid currency code format">>]
     ELSE [code |-> normalized, err |-> <<>>]

(***************************************************************************)
(* float64: IEEE 754 binary64 arithmetic, round to nearest, ties to even.  *)
(* A natural number of any size is a sequence of limbs, least significant  *)
(* first, without leading zero limbs; a float64 is [neg, m, e] and stands  *)
(* for (-1)^neg * m * 2^e, m a natural number of at most 53 bits (or       *)
(* 2^53).  Subnormals, infinities and NaN do not arise on the amounts and  *)
(* rates of the model.                                                     *)
(***************************************************************************)
LimbBits == 14
LimbBase == 16384
MantissaBits == 53

RECURSIVE Pow2(_)
Pow2(n) == IF n = 0 THEN 1 ELSE 2 * Pow2(n - 1)

RECURSIVE BigNorm(_)
BigNorm(a) ==
  IF a = <<>> THEN <<>>
  ELSE IF a[Len(a)] = 0 THEN BigNorm(SubSeq(a, 1, Len(a) - 1))
  ELSE a

RECURSIVE BigFromInt(_)
BigFromInt(n) ==
  IF n = 0 THEN <<>> ELSE <<n % LimbBase>> \o BigFromInt(n \div LimbBase)

RECURSIVE BigToInt(_)
BigToInt(a) ==
  IF a = <<>> THEN 0 ELSE a[1] + LimbBase * BigToInt(Tail(a))

RECURSIVE BigAddCarry(_, _, _)
BigAddCarry(a, b, carry) ==
  IF a = <<>> /\ b = <<>> THEN BigFromInt(carry)
  ELSE LET x == IF a = <<>> THEN 0 ELSE a[1]
           y == IF b = <<>> THEN 0 ELSE b[1]
           t == x + y + carry
       IN <<t % LimbBase>>
            \o BigAddCarry(IF a = <<>> THEN <<>> ELSE Tail(a),
                           IF b = <<>> THEN <<>> ELSE Tail(b), t \div LimbBase)

BigAdd(a, b) == BigNorm(BigAddCarry(a, b, 0))

\* a - b for a >= b
RECURSIVE BigSubBorrow(_, _, _)
BigSubBorrow(a, b, borrow) ==
  IF a = <<>> THEN <<>>
  ELSE LET y == IF b = <<>> THEN 0 ELSE b[1]
           t == a[1] - y - borrow
       IN <<IF t < 0 THEN t + LimbBase ELSE t>>
            \o BigSubBorrow(Tail(a), IF b = <<>> THEN <<>> ELSE Tail(b),
                            IF t < 0 THEN 1 ELSE 0)

BigSub(a, b) == BigNorm(BigSubBorrow(a, b, 0))

\* a < b
RECURSIVE BigLess(_, _)
BigLess(a, b) ==
  IF Len(a) # Len(b) THEN Len(a) < Len(b)
  ELSE IF a = <<>> THEN FALSE
  ELSE IF a[Len(a)] # b[Len(b)] THEN a[Len(a)] < b[Len(b)]
  ELSE BigLess(BigNorm(SubSeq(a, 1, Len(a) - 1)), BigNorm(SubSeq(b, 1, Len(b) - 1)))

\* a * k + carry for a small k
RECURSIVE BigMulSmall(_, _, _)
BigMulSmall(a, k, carry) ==
  IF a = <<>> THEN BigFromInt(carry)
  ELSE LET t == a[1] * k + carry
       IN <<t % LimbBase>> \o BigMulSmall(Tail(a), k, t \div LimbBase)

RECURSIVE BigMulLimbs(_, _)
BigMulLimbs(a, b) ==
  IF b = <<>> THEN <<>>
  ELSE BigAddCarry(BigMulSmall(a, b[1], 0), <<0>> \o BigMulLimbs(a, Tail(b)), 0)

BigMul(a, b) == BigNorm(BigMulLimbs(a, b))

\* quotient and remainder of a by a small k
RECURSIVE BigDivRem(_, _)
BigDivRem(a, k) ==
  IF a = <<>> THEN [q |-> <<>>, r |-> 0]
  ELSE LET hi == BigDivRem(Tail(a), k)
           cur == hi.r * LimbBase + a[1]
       IN [q |-> <<cur \div k>> \o hi.q, r |-> cur % k]

\* a * 2^n
BigShl(a, n) ==
  BigNorm([i \in 1..(n \div LimbBits) |-> 0] \o BigMulSmall(a, Pow2(n % LimbBits), 0))

\* a \div 2^n, and whether a bit was lost
BigShr(a, n) ==
  LET limbs == n \div LimbBits
      kept == IF limbs >= Len(a) THEN <<>> ELSE SubSeq(a, limbs + 1, Len(a))
      lost == \E i \in 1..Len(a) : i <= limbs /\ a[i] # 0
      d == BigDivRem(kept, Pow2(n % LimbBits))
  IN [q |-> BigNorm(d.q), sticky |-> lost \/ d.r # 0]

RECURSIVE BitLenInt(_)
BitLenInt(n) == IF n = 0 THEN 0 ELSE 1 + BitLenInt(n \div 2)

BitLen(a) ==
  IF a = <<>> THEN 0 ELSE LimbBits * (Len(a) - 1) + BitLenInt(a[Len(a)])

BigOdd(a) == a # <<>> /\ a[1] % 2 = 1

\* the float64 nearest to n * 2^e, or to a value just above it when sticky;
\* ties go to the even mantissa
F64Round(neg, n, e, sticky) ==
  IF BitLen(n) <= MantissaBits THEN [neg |-> neg, m |-> n, e |-> e]
  ELSE LET sh == BitLen(n) - MantissaBits
           s == BigShr(n, sh - 1)
           q == BigShr(s.q, 1).q
           half == BigOdd(s.q)
           up == half /\ (s.sticky \/ sticky \/ BigOdd(q))
       IN [neg |-> neg, m |-> IF up THEN BigAdd(q, <<1>>) ELSE q, e |-> e + sh]

\* float64(n) of an integer
F64FromInt(n) ==
  F64Round(n < 0, BigFromInt(IF n < 0 THEN -n ELSE n), 0, FALSE)

\* the float64 a decimal literal n / (divs[1] * ... * divs[k]) parses to
\* (strconv.ParseFloat rounds correctly)
RECURSIVE BigDivAll(_, _, _)
BigDivAll(a, divs, sticky) ==
  IF divs = <<>> THEN [q |-> BigNorm(a), sticky |-> sticky]
  ELSE LET d == BigDivRem(a, Head(divs))
       IN BigDivAll(BigNorm(d.q), Tail(divs), sticky \/ d.r # 0)

F64Decimal(n, divs) ==
  LET d == BigDivAll(BigShl(BigFromInt(IF n < 0 THEN -n ELSE n), 112), divs, FALSE)
  IN F64Round(n < 0, d.q, -112, d.sticky)

\* x * y
F64Mul(x, y) == F64Round(x.neg # y.neg, BigMul(x.m, y.m), x.e + y.e, FALSE)

\* x / k for a float64 k that is a small integer
F64DivSmall(x, k) ==
  LET d == BigDivRem(BigShl(x.m, 84), k)
  IN F64Round(x.neg, BigNorm(d.q), x.e - 84, d.r # 0)

\* the exact sum of x and y as [neg, n, e]
ExactSum(x, y) ==
  LET e == IF x.e < y.e THEN x.e ELSE y.e
      a == BigShl(x.m, x.e - e)
      b == BigShl(y.m, y.e - e)
  IN IF x.neg = y.neg THEN [neg |-> x.neg, n |-> BigAdd(a, b), e |-> e]
     ELSE IF BigLess(a, b) THEN [neg |-> y.neg, n |-> BigSub(b, a), e |-> e]
     ELSE [neg |-> x.neg /\ a # b, n |-> BigSub(a, b), e |-> e]

\* x + y
F64Add(x, y) ==
  LET s == ExactSum(x, y) IN F64Round(s.neg, s.n, s.e, FALSE)

\* x * y + z rounded once (a fused multiply-add)
F64FMA(x, y, z) ==
  LET p == [neg |-> x.neg # y.neg, m |-> BigMul(x.m, y.m), e |-> x.e + y.e]
      s == ExactSum(p, z)
  IN F64Round(s.neg, s.n, s.e, FALSE)

\* -x
F64Neg(x) == [x EXCEPT !.neg = ~x.neg /\ x.m # <<>>]

\* whether |x - y| <= 1 / k in the real numbers, for floats below 2^53
F64Within(x, y, k) ==
  LET s == ExactSum(x, F64Neg(y))
  IN \/ s.n = <<>>
     \/ s.e < 0 /\ ~BigLess(BigShl(<<1>>, -s.e), BigMulSmall(s.n, k, 0))

\* int64(x): truncation toward zero
F64Trunc(x) ==
  LET mag == IF x.e >= 0 THEN BigShl(x.m, x.e) ELSE BigShr(x.m, -x.e).q
  IN IF x.neg THEN -BigToInt(mag) ELSE BigToInt(mag)

(***************************************************************************)
(* entities: Money                                                         *)
(***************************************************************************)
\* whether the build evaluates dollars*100 + 0.5 as one fused multiply-add
\* (the Go compiler does on arm64, ppc64le, s390x and riscv64, not on amd64)
Builds == BOOLEAN

\* the build the requests of the model run on: amd64
Fused == FALSE

\* NewMoney(dollars) = Money(dollars*100 + 0.5), dollars a float64
NewMoney(dollars, fused) ==
  IF fused
    THEN F64Trunc(F64FMA(dollars, F64FromInt(100), F64Decimal(5, <<10>>)))
    ELSE F64Trunc(F64Add(F64Mul(dollars, F64FromInt(100)), F64Decimal(5, <<10>>)))

\* Money.Dollars: float64(m) / 100.0
Dollars(m) == F64DivSmall(F64FromInt(m), 100)

\* Money.IsPositive
IsPositive(cents) == cents > 0

\* a Validate without the rule on the amount
TransactionValidateNoAmount(t) ==
  IF t.descLen = 0 THEN "description is required"
  ELSE IF t.descLen > 50 THEN "description must not exceed 50 characters"
  ELSE IF t.date = ZeroTime THEN "transaction date is required"
  ELSE ""

\* Transaction.Validate: "" when valid, else the error message
TransactionValidate(t) ==
  IF t.descLen = 0 THEN "description is required"
  ELSE IF t.descLen > 50 THEN "description must not exceed 50 characters"
  ELSE IF t.date = ZeroTime THEN "transaction date is required"
  ELSE IF ~IsPositive(t.amount) THEN "purchase amount must be positive"
  ELSE ""

\* a Validate without the rule on the rate
ExchangeRateValidateNoRate(er) ==
  IF ~IsValid(er.from) THEN "invalid from_currency"
  ELSE IF ~IsValid(er.to) THEN "invalid to_currency"
  ELSE IF er.from = er.to THEN "from_currency and to_currency cannot be the same"
  ELSE IF er.eff = ZeroTime THEN "effective_date is required"
  ELSE ""

\* ExchangeRate.Validate: "" when valid, else the error message
ExchangeRateValidate(er) ==
  IF ~IsValid(er.from) THEN "invalid from_currency"
  ELSE IF ~IsValid(er.to) THEN "invalid to_currency"
  ELSE IF er.from = er.to THEN "from_currency and to_currency cannot be the same"
  ELSE IF er.rate <= 0 THEN "exchange rate must be positive"
  ELSE IF er.eff = ZeroTime THEN "effective_date is required"
  ELSE ""

\* IsWithinDateRange without its lower bound
IsWithinDateRangeNoFloor(er, transactionDate) ==
  ~After(er.eff, transactionDate)

\* ExchangeRate.IsWithinDateRange
IsWithinDateRange(er, transactionDate) ==
  LET sixMonthsAgo == SubSixMonths(transactionDate)
  IN ~Before(er.eff, sixMonthsAgo) /\ ~After(er.eff, transactionDate)

\* the float64 in the Rate field of er: er.rate / RateScale as Sscanf("%f")
\* read it from its decimal text
Rate(er) == F64Decimal(er.rate, <<RateScale>>)

\* ExchangeRate.ConvertAmount: NewMoney(amount.Dollars() * er.Rate), for the
\* float64 rate
ConvertAmount(rate, amount, fused) ==
  NewMoney(F64Mul(Dollars(amount), rate), fused)

NoTransaction == [id |-> NilId, descLen |-> 0, date |-> ZeroTime, amount |-> 0]
NoRate == [id |-> NilId, from |-> <<>>, to |-> <<>>, rate |-> 0, eff |-> ZeroTime]
NoResponse ==
  [has |-> FALSE, txid |-> NilId, date |-> ZeroTime, amount |-> 0,
   target |-> <<>>, rate |-> 0, converted |-> 0, eff |-> ZeroTime]
NoError == <<>>

\* NewConvertedTransaction followed by dto.NewConvertTransactionResponse:
\* the pair [resp, err]
NewConvertedTransaction(tx, targetCurrency, exchangeRate) ==
  IF ~IsWithinDateRange(exchangeRate, tx.date)
    THEN [resp |-> NoResponse,
          err |-> <<"exchange rate date is not within 6 months of transaction date">>]
  ELSE IF exchangeRate.from # USD
    THEN [resp |-> NoResponse, err |-> <<"conversion must be from USD">>]
  ELSE IF exchangeRate.to # targetCurrency
    THEN [resp |-> NoResponse,
          err |-> <<"exchange rate currency does not match target currency">>]
  ELSE [resp |-> [has |-> TRUE, txid |-> tx.id, date |-> tx.date,
                  amount |-> tx.amount, target |-> targetCurrency,
                  rate |-> exchangeRate.rate,
                  converted |-> ConvertAmount(Rate(exchangeRate), tx.amount, Fused),
                  eff |-> exchangeRate.eff],
        err |-> NoError]

\* fmt.Errorf("prefix: %w", err)
Wrap(prefix, err) == <<prefix>> \o err

(***************************************************************************)
(* Inputs of the model                                                     *)
(***************************************************************************)
TxIdPool == 1..MaxTx           \* ids a request can name

\* purchase dates a create request can carry: the 15th of June 2024 at
\* midnight and later that day, and the zero time
PurchaseDates == {Date(2024, 6, 15, 0), Date(2024, 6, 15, 1)}
DateInputs == PurchaseDates \cup {ZeroTime}

\* amounts of a create request, in thousandths of a dollar
AmountInputs == {0, 4, 100000}

\* description lengths of a create request
DescLenInputs == {0, 50, 51}

\* record_date values of a Treasury record (midnight, as time.Parse of
\* "2006-01-02" yields), around both ends of the window of the purchase
\* dates; BadDate is a string time.Parse rejects
BadDate == Date(0, 0, 0, 0)
RecordDates ==
  {Date(2023, 12, 14, 0), Date(2023, 12, 15, 0), Date(2024, 6, 15, 0),
   Date(2024, 6, 16, 0)}

\* exchange_rate values of a Treasury record, as the number Sscanf("%f")
\* reads; BadNumber is a string it rejects
BadNumber == -999999
RecordRates == {520, 0}

TreasuryRecords ==
  [date : RecordDates, rate : RecordRates]
    \cup {[date |-> BadDate, rate |-> 520],
          [date |-> Date(2024, 6, 15, 0), rate |-> BadNumber]}

\* all sequences over S of length at most n
RECURSIVE SeqsUpTo(_, _)
SeqsUpTo(S, n) ==
  IF n = 0 THEN {<<>>}
  ELSE LET shorter == SeqsUpTo(S, n - 1)
       IN shorter \cup {Append(q, x) : q \in {r \in shorter : Len(r) = n - 1}, x \in S}

\* bodies the Treasury API can answer with
TreasuryResponses == SeqsUpTo(TreasuryRecords, MaxRecords)

\* errors httpClient.Get returns: a refused connection, the client's timeout
TransportErrors ==
  {"dial tcp: connect: connection refused",
   "context deadline exceeded (Client.Timeout exceeded while awaiting headers)"}

\* errors json.Decoder.Decode returns on a body that is not the expected
\* JSON: a truncated one, one that is not JSON at all
DecodeErrors ==
  {"unexpected EOF", "invalid character '<' looking for beginning of value"}

\* ways the HTTP exchange with the Treasury API can fail: the error
\* FetchExchangeRate returns, with the cause it wraps
TreasuryFailures ==
  {<<"failed to fetch from Treasury API", cause>> : cause \in TransportErrors}
    \cup {<<"Treasury API returned status">>}
    \cup {<<"failed to parse Treasury API response", cause>> : cause \in DecodeErrors}

(***************************************************************************)
(* State                                                                   *)
(***************************************************************************)
VARIABLES
  transactions,    \* the purchase table: a set of Transaction records
  exchangeRates,   \* the exchange_rate table: a set of ExchangeRate records
  pc,              \* pc[p]: where request p is in Execute
  request,         \* request[p]: the ConvertTransactionRequest
  transaction,     \* transaction[p]: the purchase Execute loaded
  exchangeRate,    \* exchangeRate[p]: the rate findExchangeRate holds
  response,        \* response[p]: [resp, err] returned by Execute
  calls,           \* calls[p]: what request p has done to its collaborators
  ratesBefore,     \* ratesBefore[p]: the exchange_rate table when p began
  remembered,      \* history: one earlier conversion resolved by the Treasury
  probe,           \* the last evaluation of a pure function
  source,          \* the records the Treasury API holds, when they are fixed
  repo             \* the repository call of a caller that uses the stores
                   \* directly: the call, its argument, where it is, its error

vars ==
  <<transactions, exchangeRates, pc, request, transaction, exchangeRate,
    response, calls, ratesBefore, remembered, probe, source, repo>>

history == <<ratesBefore, remembered, probe, source, repo>>

NoRequest == [id |-> NilId, target |-> <<>>]
NoCalls ==
  [txReads |-> 0, localReads |-> 0, localHit |-> FALSE, extCalls |-> 0,
   answered |-> FALSE, saves |-> 0, saved |-> 0]
NoReturn == [resp |-> NoResponse, err |-> NoError]
NoMemory ==
  [set |-> FALSE, fresh |-> FALSE, cached |-> FALSE, request |-> NoRequest,
   rate |-> NoRate, resp |-> NoResponse]
NoProbe == [fn |-> "none"]
NoCall ==
  [op |-> "none", step |-> "idle", tx |-> NoTransaction, rate |-> NoRate,
   err |-> ""]

(***************************************************************************)
(* database: sqliteExchangeRateRepository, sqliteTransactionRepository     *)
(***************************************************************************)
\* sqliteTransactionRepository.GetByID: the stored purchase or NoTransaction
GetByID(id) ==
  IF \E t \in transactions : t.id = id
    THEN CHOOSE t \in transactions : t.id = id
    ELSE NoTransaction

\* the WHERE clauses with "effective_date < ?" for the upper bound
RateRowsStrict(table, from, to, transactionDate) ==
  LET sixMonthsAgo == SubSixMonths(transactionDate)
  IN {r \in table :
        /\ r.from = from /\ r.to = to
        /\ Key(r.eff) < Key(transactionDate)
        /\ Key(r.eff) >= Key(sixMonthsAgo)}

\* the WHERE clauses with "effective_date > ?" for the lower bound
RateRowsNoBoundary(table, from, to, transactionDate) ==
  LET sixMonthsAgo == SubSixMonths(transactionDate)
  IN {r \in table :
        /\ r.from = from /\ r.to = to
        /\ Key(r.eff) <= Key(transactionDate)
        /\ Key(r.eff) > Key(sixMonthsAgo)}

\* the WHERE clauses without "effective_date <= ?"
RateRowsNoCeiling(table, from, to, transactionDate) ==
  LET sixMonthsAgo == SubSixMonths(transactionDate)
  IN {r \in table :
        /\ r.from = from /\ r.to = to
        /\ Key(r.eff) >= Key(sixMonthsAgo)}

\* rows of table that FindRateForConversion's WHERE clauses select
RateRows(table, from, to, transactionDate) ==
  LET sixMonthsAgo == SubSixMonths(transactionDate)
  IN {r \in table :
        /\ r.from = from /\ r.to = to
        /\ Key(r.eff) <= Key(transactionDate)
        /\ Key(r.eff) >= Key(sixMonthsAgo)}

\* a FindRateForConversion with ORDER BY effective_date ASC
FindRateForConversionOldest(from, to, transactionDate) ==
  LET rows == RateRows(exchangeRates, from, to, transactionDate)
  IN IF rows = {} THEN NoRate
     ELSE CHOOSE r \in rows :
            \A o \in rows :
              \/ Key(o.eff) > Key(r.eff)
              \/ (Key(o.eff) = Key(r.eff) /\ r.id <= o.id)

\* a query whose order among rows of the same effective date is not fixed by
\* the table: it turns with the number of requests that have their result
FindRateForConversionUnordered(from, to, transactionDate) ==
  LET rows == RateRows(exchangeRates, from, to, transactionDate)
      latest == {r \in rows : \A o \in rows : Key(o.eff) <= Key(r.eff)}
  IN IF rows = {} THEN NoRate
     ELSE IF \E q \in Procs : pc[q] = "done"
       THEN CHOOSE r \in latest : \A o \in latest : r.id >= o.id
     ELSE CHOOSE r \in latest : \A o \in latest : r.id <= o.id

\* sqliteExchangeRateRepository.FindRateForConversion: the first row in
\* ORDER BY effective_date DESC (gorm's First then orders by primary key),
\* or NoRate
FindRateForConversion(from, to, transactionDate) ==
  LET rows == RateRows(exchangeRates, from, to, transactionDate)
  IN IF rows = {} THEN NoRate
     ELSE CHOOSE r \in rows :
            \A o \in rows :
              \/ Key(o.eff) < Key(r.eff)
              \/ (Key(o.eff) = Key(r.eff) /\ r.id <= o.id)

\* a Save that reports success without inserting the row
RateSaveSilent(er, dbOk) ==
  IF ExchangeRateValidate(er) # ""
    THEN [err |-> ExchangeRateValidate(er), table |-> exchangeRates]
    ELSE [err |-> "", table |-> exchangeRates]

\* a Save that replaces the rows of the same currency pair
RateSaveReplacing(er, dbOk) ==
  IF ExchangeRateValidate(er) # ""
    THEN [err |-> ExchangeRateValidate(er), table |-> exchangeRates]
  ELSE IF ~dbOk \/ Cardinality(exchangeRates) >= MaxRates
    THEN [err |-> "database error", table |-> exchangeRates]
  ELSE [err |-> "",
        table |-> {r \in exchangeRates : r.from # er.from \/ r.to # er.to} \cup {er}]

\* a Save into a column that keeps the whole units of the rate only
RateSaveRounded(er, dbOk) ==
  IF ExchangeRateValidate(er) # ""
    THEN [err |-> ExchangeRateValidate(er), table |-> exchangeRates]
  ELSE IF ~dbOk \/ (\E r \in exchangeRates : r.id = er.id)
            \/ Cardinality(exchangeRates) >= MaxRates
    THEN [err |-> "database error", table |-> exchangeRates]
  ELSE [err |-> "",
        table |-> exchangeRates
                    \cup {[er EXCEPT !.rate = (er.rate \div RateScale) * RateScale]}]

\* sqliteExchangeRateRepository.Save: the error ("" for none) and the table
\* afterwards; dbOk = FALSE is a failure of the INSERT itself
RateSave(er, dbOk) ==
  IF ExchangeRateValidate(er) # ""
    THEN [err |-> ExchangeRateValidate(er), table |-> exchangeRates]
  ELSE IF ~dbOk \/ (\E r \in exchangeRates : r.id = er.id)
            \/ Cardinality(exchangeRates) >= MaxRates
    THEN [err |-> "database error", table |-> exchangeRates]
  ELSE [err |-> "", table |-> exchangeRates \cup {er}]

(***************************************************************************)
(* external: TreasuryAPIClient                                             *)
(***************************************************************************)
\* TreasuryAPIClient.parseRecord: does the record parse
RecordParses(record) == record.rate # BadNumber /\ record.date # BadDate

\* TreasuryAPIClient.parseRecord: the ExchangeRate of a record that parses
ParseRecord(record, id, from, to) ==
  [id |-> id, from |-> from, to |-> to, rate |-> record.rate, eff |-> record.date]

\* TreasuryAPIClient.parseExchangeRate: [rate, err]; the first record of
\* the response that parses and is within the date range
ParseExchangeRate(records, id, from, to, transactionDate) ==
  LET usable == {i \in 1..Len(records) :
                   /\ RecordParses(records[i])
                   /\ IsWithinDateRange(ParseRecord(records[i], id, from, to),
                                        transactionDate)}
  IN IF Len(records) = 0
       THEN [rate |-> NoRate,
             err |-> <<"no exchange rate found within 6 months of">>]
     ELSE IF usable = {}
       THEN [rate |-> NoRate,
             err |-> <<"no suitable exchange rate found within 6 months of">>]
     ELSE LET first == CHOOSE i \in usable : \A j \in usable : i <= j
          IN [rate |-> ParseRecord(records[first], id, from, to), err |-> NoError]

\* a FetchExchangeRate that answers a failed exchange with a rate of 1
FetchExchangeRateFallback(from, to, date, id, failure, records) ==
  IF from # USD
    THEN [rate |-> NoRate, err |-> <<"Treasury API only supports USD as base currency">>]
  ELSE IF failure # NoError
    THEN [rate |-> [id |-> id, from |-> from, to |-> to, rate |-> RateScale,
                    eff |-> Midnight(date)],
          err |-> NoError]
  ELSE ParseExchangeRate(records, id, from, to, date)

\* TreasuryAPIClient.FetchExchangeRate: [rate, err]; failure is the way the
\* HTTP exchange failed (NoError when it did not), records the body received
FetchExchangeRate(from, to, date, id, failure, records) ==
  IF from # USD
    THEN [rate |-> NoRate, err |-> <<"Treasury API only supports USD as base currency">>]
  ELSE IF failure # NoError
    THEN [rate |-> NoRate, err |-> failure]
  ELSE ParseExchangeRate(records, id, from, to, date)

(***************************************************************************)
(* usecases: CreateTransactionUseCase                                      *)
(***************************************************************************)
\* CreateTransactionRequest.ToEntity: NewMoney(r.Amount) of the float64 the
\* JSON number amount / 1000 decodes to, for every amount of the model
ToEntityAmount ==
  [amount \in AmountInputs |-> NewMoney(F64Decimal(amount, <<1000>>), Fused)]

\* CreateTransactionUseCase.Execute: validateRequest, ToEntity,
\* validateBusinessRules, transactionRepo.Save; the entity, the error ("" for
\* none) and the table afterwards
CreateTransactionExecute(descLen, date, amount, dbOk) ==
  LET entity == [id |-> NewUUID({t.id : t \in transactions} \cup {repo.tx.id}),
                 descLen |-> descLen, date |-> date,
                 amount |-> ToEntityAmount[amount]]
      requestOk == descLen > 0 /\ descLen <= 50 /\ date # ZeroTime /\ amount > 0
  IN IF ~requestOk
       THEN [entity |-> entity, err |-> "validation failed", table |-> transactions]
     ELSE IF TransactionValidate(entity) # ""
       THEN [entity |-> entity, err |-> "business validation failed",
             table |-> transactions]
     ELSE IF ~dbOk
       THEN [entity |-> entity, err |-> "failed to save transaction",
             table |-> transactions]
     ELSE [entity |-> entity, err |-> "", table |-> transactions \cup {entity}]

\* a create request is served
CreateTransaction ==
  \E descLen \in DescLenInputs, date \in DateInputs,
     amount \in AmountInputs, dbOk \in BOOLEAN :
    /\ Cardinality(transactions) < MaxTx
    /\ transactions' = CreateTransactionExecute(descLen, date, amount, dbOk).table
    /\ UNCHANGED <<exchangeRates, pc, request, transaction, exchangeRate,
                   response, calls, history>>

(***************************************************************************)
(* usecases: ConvertTransactionUseCase                                     *)
(***************************************************************************)
\* ConvertTransactionUseCase.validateRequest: the validator's "required"
\* tags on TransactionID and TargetCurrency
ValidateRequest(req) ==
  IF req.id = NilId
    THEN <<"Field validation for 'TransactionID' failed on the 'required' tag">>
  ELSE IF req.target = <<>>
    THEN <<"Field validation for 'TargetCurrency' failed on the 'required' tag">>
  ELSE NoError

\* validateConversionRules without the base-currency rule
ValidateConversionRulesNoUSD(tx, targetCurrency) ==
  IF ~IsValid(targetCurrency) THEN <<"invalid target currency">>
  ELSE NoError

\* ConvertTransactionUseCase.validateConversionRules
ValidateConversionRules(tx, targetCurrency) ==
  IF ~IsValid(targetCurrency) THEN <<"invalid target currency">>
  ELSE IF targetCurrency = USD THEN <<"cannot convert USD transaction to USD">>
  ELSE NoError

\* an Execute that returns a non-nil, empty response along with an error
ReturnEmptyResponse(p, ret) ==
  /\ response' = [response EXCEPT ![p] =
                    IF ret.err # NoError
                      THEN [resp |-> [NoResponse EXCEPT !.has = TRUE], err |-> ret.err]
                      ELSE ret]
  /\ pc' = [pc EXCEPT ![p] = "done"]

\* Execute returns ret to its caller
Return(p, ret) ==
  /\ response' = [response EXCEPT ![p] = ret]
  /\ pc' = [pc EXCEPT ![p] = "done"]

\* Execute up to the call of findExchangeRate: validateRequest,
\* getTransaction, validateConversionRules
BeginWith(p, id, target, dbOk) ==
  /\ pc[p] = "idle"
  /\   LET req == [id |-> id, target |-> target]
           tx == GetByID(id)
           rules == ValidateConversionRules(tx, target)
       IN /\ request' = [request EXCEPT ![p] = req]
          /\ IF ValidateRequest(req) # NoError
               THEN /\ Return(p, [resp |-> NoResponse,
                                  err |-> Wrap("validation failed", ValidateRequest(req))])
                    /\ calls' = [calls EXCEPT ![p] = NoCalls]
                    /\ UNCHANGED transaction
             ELSE IF ~dbOk
               THEN /\ Return(p, [resp |-> NoResponse,
                                  err |-> <<"failed to get transaction", "database error">>])
                    /\ calls' = [calls EXCEPT ![p] = [NoCalls EXCEPT !.txReads = 1]]
                    /\ UNCHANGED transaction
             ELSE IF tx = NoTransaction
               THEN /\ Return(p, [resp |-> NoResponse,
                                  err |-> <<"failed to get transaction",
                                            "transaction not found with id">>])
                    /\ calls' = [calls EXCEPT ![p] = [NoCalls EXCEPT !.txReads = 1]]
                    /\ UNCHANGED transaction
             ELSE IF rules # NoError
               THEN /\ Return(p, [resp |-> NoResponse,
                                  err |-> Wrap("conversion validation failed", rules)])
                    /\ calls' = [calls EXCEPT ![p] = [NoCalls EXCEPT !.txReads = 1]]
                    /\ transaction' = [transaction EXCEPT ![p] = tx]
             ELSE /\ pc' = [pc EXCEPT ![p] = "find"]
                  /\ calls' = [calls EXCEPT ![p] = [NoCalls EXCEPT !.txReads = 1]]
                  /\ transaction' = [transaction EXCEPT ![p] = tx]
                  /\ UNCHANGED response
  /\ ratesBefore' = [ratesBefore EXCEPT ![p] = exchangeRates]
  /\ UNCHANGED <<transactions, exchangeRates, exchangeRate, remembered, probe,
                 source, repo>>

\* a request arrives
Begin(p) ==
  /\ \E id \in TxIdPool \cup {NilId}, target \in TargetInputs, dbOk \in BOOLEAN :
       BeginWith(p, id, target, dbOk)

\* createConvertedTransaction and the return of Execute
Convert(p, rate) ==
  LET made == NewConvertedTransaction(transaction[p], request[p].target, rate)
  IN IF made.err # NoError
       THEN Return(p, [resp |-> NoResponse,
                       err |-> Wrap("failed to create converted transaction", made.err)])
       ELSE Return(p, made)

\* findExchangeRate, step 1 and 2: the local lookup; a hit goes on to
\* createConvertedTransaction
FindLocal(p) ==
  /\ pc[p] = "find"
  /\ \E dbOk \in BOOLEAN :
       LET found == FindRateForConversion(USD, request[p].target, transaction[p].date)
       IN IF ~dbOk
            THEN /\ Return(p, [resp |-> NoResponse,
                               err |-> <<"failed to find exchange rate",
                                         "error searching local exchange rates",
                                         "database error">>])
                 /\ calls' = [calls EXCEPT ![p].localReads = @ + 1]
                 /\ UNCHANGED exchangeRate
          ELSE IF found # NoRate
            THEN /\ Convert(p, found)
                 /\ calls' = [calls EXCEPT ![p].localReads = @ + 1,
                                           ![p].localHit = TRUE]
                 /\ exchangeRate' = [exchangeRate EXCEPT ![p] = found]
          ELSE /\ pc' = [pc EXCEPT ![p] = "fetch"]
               /\ calls' = [calls EXCEPT ![p].localReads = @ + 1]
               /\ UNCHANGED <<exchangeRate, response>>
  /\ UNCHANGED <<transactions, exchangeRates, request, transaction, history>>

\* what an HTTP exchange with the Treasury API can end in: a failure or a body
TreasuryOutcomes ==
  [failure : TreasuryFailures, records : {<<>>}]
    \cup [failure : {NoError}, records : TreasuryResponses]

\* findExchangeRate, step 3: the call of the Treasury API, which ends in
\* out.  The id of the rate is one that no row and no request holds.
FetchWith(p, out) ==
  /\ pc[p] = "fetch"
  /\   LET id == NewUUID({r.id : r \in exchangeRates}
                          \cup {exchangeRate[q].id : q \in Procs})
           fetched == FetchExchangeRate(USD, request[p].target, transaction[p].date,
                                        id, out.failure, out.records)
       IN (IF fetched.err # NoError
            THEN /\ Return(p, [resp |-> NoResponse,
                               err |-> <<"failed to find exchange rate",
                                         "failed to fetch exchange rate from Treasury API">>
                                       \o fetched.err])
                 /\ UNCHANGED exchangeRate
            ELSE /\ pc' = [pc EXCEPT ![p] = "save"]
                 /\ exchangeRate' = [exchangeRate EXCEPT ![p] = fetched.rate]
                 /\ UNCHANGED response)
       /\ calls' = [calls EXCEPT ![p].extCalls = @ + 1,
                                 ![p].answered = (out.failure = NoError)]
  /\ UNCHANGED <<transactions, exchangeRates, request, transaction, history>>

\* the call of a Treasury API that may fail or answer with any body
FetchTreasury(p) == \E out \in TreasuryOutcomes : FetchWith(p, out)

\* the Treasury API's answer from the records it holds: those with a
\* record_date from the day of startDate to the day of endDate (the filter
\* of buildURL), in the order it holds them
TreasuryAnswer(records, startDate, endDate) ==
  SelectSeq(records,
            LAMBDA r : /\ r.date # BadDate
                       /\ Key(Midnight(startDate)) <= Key(r.date)
                       /\ Key(r.date) <= Key(Midnight(endDate)))

\* the call of a Treasury API that holds the records of source
FetchFixed(p) ==
  FetchWith(p, [failure |-> NoError,
                records |-> TreasuryAnswer(source, SubSixMonths(transaction[p].date),
                                           transaction[p].date)])

\* a findExchangeRate that gives up when the cache write fails
SaveFetchedFailing(p, keep) ==
  /\ pc[p] = "save"
  /\ \E dbOk \in BOOLEAN :
       LET saved == RateSave(exchangeRate[p], dbOk)
       IN /\ exchangeRates' = saved.table
          /\ calls' = [calls EXCEPT ![p].saves = @ + 1,
                                    ![p].saved = @ + (IF saved.err = "" THEN 1 ELSE 0)]
          /\ IF saved.err # ""
               THEN Return(p, [resp |-> NoResponse,
                               err |-> <<"failed to find exchange rate",
                                         "failed to cache exchange rate">>])
               ELSE Convert(p, exchangeRate[p])
  /\ UNCHANGED <<transactions, request, transaction, exchangeRate, history>>

\* findExchangeRate, step 4: the best-effort cache write, then
\* createConvertedTransaction
SaveFetchedWith(p, keep) ==
  /\ pc[p] = "save"
  /\ \E dbOk \in BOOLEAN :
       LET saved == RateSave(exchangeRate[p], dbOk)
       IN /\ exchangeRates' = saved.table
          /\ calls' = [calls EXCEPT ![p].saves = @ + 1,
                                    ![p].saved = @ + (IF saved.err = "" THEN 1 ELSE 0)]
          /\ remembered' =
               IF keep /\ ~remembered.set
                 THEN [set |-> TRUE, fresh |-> TRUE, cached |-> saved.err = "",
                       request |-> request[p], rate |-> exchangeRate[p],
                       resp |-> NewConvertedTransaction(transaction[p],
                                  request[p].target, exchangeRate[p]).resp]
                 ELSE remembered
  /\ Convert(p, exchangeRate[p])
  /\ UNCHANGED <<transactions, request, transaction, exchangeRate, ratesBefore, probe,
                 source, repo>>

SaveFetched(p) == \E keep \in BOOLEAN : SaveFetchedWith(p, keep)

(***************************************************************************)
(* handlers: TransactionHandler                                            *)
(***************************************************************************)
\* the message fragments of the model whose text holds substr
FragmentsWith(substr) ==
  CASE substr = "validation failed" ->
         {"validation failed", "conversion validation failed"}
    [] substr = "invalid" ->
         {"invalid target currency",
          "invalid character '<' looking for beginning of value"}
    [] substr = "required" ->
         {"Field validation for 'TransactionID' failed on the 'required' tag",
          "Field validation for 'TargetCurrency' failed on the 'required' tag"}
    [] substr = "not found" ->
         {"transaction not found with id"}
    [] substr = "no suitable exchange rate found" ->
         {"no suitable exchange rate found within 6 months of"}
    [] substr = "within 6 months" ->
         {"no exchange rate found within 6 months of",
          "no suitable exchange rate found within 6 months of",
          "exchange rate date is not within 6 months of transaction date"}

\* strings.Contains(err.Error(), substr)
contains(err, substr) == \E i \in DOMAIN err : err[i] \in FragmentsWith(substr)

isValidationError(err) ==
  \/ contains(err, "validation failed")
  \/ contains(err, "invalid")
  \/ contains(err, "required")

\* a classification by comparison with a sentinel error
isNotFoundErrorSentinel(err) == err = <<"not found">>

isNotFoundError(err) == contains(err, "not found")

\* the classification without its second substring
isExchangeRateNotFoundErrorStrict(err) ==
  contains(err, "no suitable exchange rate found")

isExchangeRateNotFoundError(err) ==
  \/ contains(err, "no suitable exchange rate found")
  \/ contains(err, "within 6 months")

\* TransactionHandler.ConvertTransaction: the HTTP status it answers with,
\* given the request and what Execute returned.  A body without
\* target_currency fails the binding before Execute is called.
ConvertTransactionStatus(req, ret) ==
  IF req.target = <<>> THEN 400
  ELSE IF ret.err = NoError THEN 200
  ELSE IF isValidationError(ret.err) THEN 400
  ELSE IF isNotFoundError(ret.err) THEN 404
  ELSE IF isExchangeRateNotFoundError(ret.err) THEN 422
  ELSE 500

\* the caller has the response; the request is over
Finish(p) ==
  /\ pc[p] = "done"
  /\ pc' = [pc EXCEPT ![p] = "idle"]
  /\ request' = [request EXCEPT ![p] = NoRequest]
  /\ transaction' = [transaction EXCEPT ![p] = NoTransaction]
  /\ exchangeRate' = [exchangeRate EXCEPT ![p] = NoRate]
  /\ response' = [response EXCEPT ![p] = NoReturn]
  /\ calls' = [calls EXCEPT ![p] = NoCalls]
  /\ ratesBefore' = [ratesBefore EXCEPT ![p] = {}]
  /\ remembered' = [remembered EXCEPT !.fresh = FALSE]
  /\ UNCHANGED <<transactions, exchangeRates, probe, source, repo>>

Init ==
  /\ transactions = {}
  /\ exchangeRates = {}
  /\ pc = [p \in Procs |-> "idle"]
  /\ request = [p \in Procs |-> NoRequest]
  /\ transaction = [p \in Procs |-> NoTransaction]
  /\ exchangeRate = [p \in Procs |-> NoRate]
  /\ response = [p \in Procs |-> NoReturn]
  /\ calls = [p \in Procs |-> NoCalls]
  /\ ratesBefore = [p \in Procs |-> {}]
  /\ remembered = NoMemory
  /\ probe = NoProbe
  /\ source = <<>>
  /\ repo = NoCall

Next ==
  \/ CreateTransaction
  \/ \E p \in Serial : Begin(p)
  \/ \E p \in Serial : FindLocal(p)
  \/ \E p \in Serial : FetchTreasury(p)
  \/ \E p \in Serial : SaveFetched(p)
  \/ \E p \in Serial : Finish(p)

Spec == Init /\ [][Next]_vars

(***************************************************************************)
(* Evaluation of the validity rule on its own: IsWithinDateRange applied   *)
(* to an effective date placed relative to a purchase date.                *)
(***************************************************************************)
\* purchase dates probed: the first, the middle and the last days of every
\* month of 2024, at midnight and later that day
ProbeTimes ==
  {Date(2024, m, d, tod) : m \in 1..12, d \in {1, 15, 28, 29, 30, 31},
                           tod \in 0..(TicksPerDay - 1)}
    \ {Date(2024, m, d, tod) : m \in {2, 4, 6, 9, 11}, d \in {30, 31},
                               tod \in 0..(TicksPerDay - 1)}

\* where the effective date (midnight of a calendar day) lies
ProbePlaces == {"same day", "six months before", "one day earlier", "one day after"}

ProbeEffective(T, place) ==
  IF place = "same day" THEN Midnight(T)
  ELSE IF place = "six months before" THEN SubSixMonths(Midnight(T))
  ELSE IF place = "one day earlier" THEN PrevDay(SubSixMonths(Midnight(T)))
  ELSE NextDay(Midnight(T))

EvalDateRange ==
  /\ \E T \in ProbeTimes, place \in ProbePlaces :
       LET E == ProbeEffective(T, place)
       IN probe' = [fn |-> "IsWithinDateRange", date |-> T, place |-> place,
                    eff |-> E,
                    within |-> IsWithinDateRange([NoRate EXCEPT !.eff = E], T)]
  /\ UNCHANGED <<transactions, exchangeRates, pc, request, transaction,
                 exchangeRate, response, calls, ratesBefore, remembered,
                 source, repo>>

NextDates == EvalDateRange

SpecDates == Init /\ [][NextDates]_vars

(***************************************************************************)
(* The validity windows of two purchases, the first dated no later than    *)
(* the second, and one rate: the window test of the entity and the WHERE   *)
(* clauses of the repository applied to both.                              *)
(***************************************************************************)
EvalWindows ==
  /\ probe = NoProbe
  /\ \E T1 \in ProbeTimes, T2 \in ProbeTimes, place \in ProbePlaces :
       LET E == ProbeEffective(T2, place)
           row == [id |-> 1, from |-> USD, to |-> BRL, rate |-> 530, eff |-> E]
       IN /\ Key(T1) <= Key(T2)
          /\ probe' = [fn |-> "Windows", first |-> T1, second |-> T2,
                       eff |-> E,
                       lower1 |-> SubSixMonths(T1),
                       lower2 |-> SubSixMonths(T2),
                       within1 |-> IsWithinDateRange(row, T1),
                       within2 |-> IsWithinDateRange(row, T2),
                       found1 |-> RateRows({row}, USD, BRL, T1) # {},
                       found2 |-> RateRows({row}, USD, BRL, T2) # {}]
  /\ UNCHANGED <<transactions, exchangeRates, pc, request, transaction,
                 exchangeRate, response, calls, ratesBefore, remembered,
                 source, repo>>

\* the windows have been looked at
WindowsDone ==
  /\ probe # NoProbe
  /\ probe' = NoProbe
  /\ UNCHANGED <<transactions, exchangeRates, pc, request, transaction,
                 exchangeRate, response, calls, ratesBefore, remembered,
                 source, repo>>

NextWindows == EvalWindows \/ WindowsDone

SpecWindows == Init /\ [][NextWindows]_vars

(***************************************************************************)
(* The API with its read endpoint: GET /transactions/:id is served between *)
(* the other requests.                                                     *)
(***************************************************************************)
\* GetTransactionUseCase.Execute: [found, err]
GetTransactionExecute(id, dbOk) ==
  IF id = NilId
    THEN [found |-> NoTransaction,
          err |-> <<"validation failed", "transaction ID cannot be empty">>]
  ELSE IF ~dbOk
    THEN [found |-> NoTransaction,
          err |-> <<"failed to retrieve transaction", "database error">>]
  ELSE IF GetByID(id) = NoTransaction
    THEN [found |-> NoTransaction, err |-> <<"transaction not found with id">>]
  ELSE [found |-> GetByID(id), err |-> NoError]

\* TransactionHandler.GetTransaction: the HTTP status it answers with
GetTransactionStatus(ret) ==
  IF ret.err = NoError THEN 200
  ELSE IF isNotFoundError(ret.err) THEN 404
  ELSE 500

\* GET /transactions/:id arrives and is executed
GetTransaction ==
  /\ probe = NoProbe
  /\ \A p \in Procs : pc[p] = "idle"
  /\ \E id \in TxIdPool \cup {NilId}, dbOk \in BOOLEAN :
       LET ret == GetTransactionExecute(id, dbOk)
       IN probe' = [fn |-> "GetTransaction", id |-> id, dbOk |-> dbOk,
                    found |-> ret.found, err |-> ret.err,
                    status |-> GetTransactionStatus(ret)]
  /\ UNCHANGED <<transactions, exchangeRates, pc, request, transaction,
                 exchangeRate, response, calls, ratesBefore, remembered,
                 source, repo>>

\* the caller of GET /transactions/:id has the response
GetTransactionDone ==
  /\ probe # NoProbe
  /\ probe' = NoProbe
  /\ UNCHANGED <<transactions, exchangeRates, pc, request, transaction,
                 exchangeRate, response, calls, ratesBefore, remembered,
                 source, repo>>

NextApi ==
  \/ probe = NoProbe /\ Next
  \/ GetTransaction
  \/ GetTransactionDone

SpecApi == Init /\ [][NextApi]_vars

(***************************************************************************)
(* Evaluation of the arithmetic of Money on its own.                       *)
(***************************************************************************)
MaxCents == 60        \* amounts 0.01 .. 0.60 are converted
MaxMills == 1100      \* amounts -1.100 .. 1.100 are made Money

\* amounts in cents that are converted: the small ones and those of the
\* fixtures
ConvertAmounts == 1..MaxCents \cup {5000, 9999, 10000}

\* rates, as decimals n / (divs[1] * ... * divs[k])
ConvertRates ==
  {[n |-> 5, divs |-> <<10>>], [n |-> 15, divs |-> <<10>>],
   [n |-> 85, divs |-> <<100>>], [n |-> 125, divs |-> <<100>>],
   [n |-> 520, divs |-> <<100>>], [n |-> 5196743, divs |-> <<1000, 1000>>]}

\* amounts in thousandths of a dollar that are made Money
MoneyInputs == (-MaxMills)..MaxMills \cup {19994, 19996, -19994, -19996, 1234560}

EvalConvertAmount ==
  /\ probe = NoProbe
  /\ \E amount \in ConvertAmounts, r \in ConvertRates, fused \in Builds :
       probe' = [fn |-> "ConvertAmount", amount |-> amount, rate |-> r,
                 fused |-> fused,
                 converted |-> ConvertAmount(F64Decimal(r.n, r.divs), amount, fused)]
  /\ UNCHANGED <<transactions, exchangeRates, pc, request, transaction,
                 exchangeRate, response, calls, ratesBefore, remembered,
                 source, repo>>

\* NewMoney(dollars), and money.Dollars() compared with dollars
EvalNewMoney ==
  /\ probe = NoProbe
  /\ \E mills \in MoneyInputs, fused \in Builds :
       LET dollars == F64Decimal(mills, <<1000>>)
           money == NewMoney(dollars, fused)
       IN probe' = [fn |-> "NewMoney", mills |-> mills, fused |-> fused,
                    money |-> money,
                    within |-> F64Within(Dollars(money), dollars, 100)]
  /\ UNCHANGED <<transactions, exchangeRates, pc, request, transaction,
                 exchangeRate, response, calls, ratesBefore, remembered,
                 source, repo>>

\* the value has been looked at
EvalDone ==
  /\ probe # NoProbe
  /\ probe' = NoProbe
  /\ UNCHANGED <<transactions, exchangeRates, pc, request, transaction,
                 exchangeRate, response, calls, ratesBefore, remembered,
                 source, repo>>

NextMoney == EvalConvertAmount \/ EvalNewMoney \/ EvalDone

SpecMoney == Init /\ [][NextMoney]_vars

(***************************************************************************)
(* Evaluation of the list response and of the currency-code parser on      *)
(* their own.                                                              *)
(***************************************************************************)
MaxTotal == 25        \* the purchase table holds 0 .. MaxTotal rows
MaxCodeLen == 5       \* longest raw currency code

\* Go's integer division: the quotient truncated toward zero
Quo(n, d) == IF n >= 0 THEN n \div d ELSE -((-n) \div d)

\* a page count that rounds down
TotalPagesFloor(total, size) == Quo(total, size)

\* NewListTransactionsResponse: totalPages
TotalPages(total, size) == Quo(total + size - 1, size)

\* an Execute that validates the request before it sets the defaults
ListTransactionsExecuteNoDefaults(page, size, total, dbOk) ==
  LET none == [page |-> 0, size |-> 0, total |-> 0, totalPages |-> 0]
  IN IF page < 1
       THEN [resp |-> none, err |-> <<"validation failed", "page must be at least 1">>,
             called |-> FALSE]
     ELSE IF size < 1
       THEN [resp |-> none, err |-> <<"validation failed", "size must be at least 1">>,
             called |-> FALSE]
     ELSE IF size > 100
       THEN [resp |-> none, err |-> <<"validation failed", "size cannot exceed 100">>,
             called |-> FALSE]
     ELSE IF ~dbOk
       THEN [resp |-> none,
             err |-> <<"failed to retrieve transactions", "database error">>,
             called |-> TRUE]
     ELSE [resp |-> [page |-> page, size |-> size, total |-> total,
                     totalPages |-> TotalPages(total, size)],
           err |-> NoError, called |-> TRUE]

\* ListTransactionsUseCase.Execute on a table of total rows: the response
\* [page, size, total, totalPages], the error, and whether GetAllPaginated
\* was called
ListTransactionsExecute(page, size, total, dbOk) ==
  LET p == IF page = 0 THEN 1 ELSE page
      sz == IF size = 0 THEN 20 ELSE size
      none == [page |-> 0, size |-> 0, total |-> 0, totalPages |-> 0]
  IN IF p < 1
       THEN [resp |-> none, err |-> <<"validation failed", "page must be at least 1">>,
             called |-> FALSE]
     ELSE IF sz < 1
       THEN [resp |-> none, err |-> <<"validation failed", "size must be at least 1">>,
             called |-> FALSE]
     ELSE IF sz > 100
       THEN [resp |-> none, err |-> <<"validation failed", "size cannot exceed 100">>,
             called |-> FALSE]
     ELSE IF ~dbOk
       THEN [resp |-> none,
             err |-> <<"failed to retrieve transactions", "database error">>,
             called |-> TRUE]
     ELSE [resp |-> [page |-> p, size |-> sz, total |-> total,
                     totalPages |-> TotalPages(total, sz)],
           err |-> NoError, called |-> TRUE]

PageInputs == {-1, 0, 1, 2}
SizeInputs == (-1)..101
TotalInputs == 0..MaxTotal

\* raw strings handed to NewCurrencyCode
CodeChars == {"U", "d", " ", "1", "U+017F", "U+00E9"}
CodeInputs == SeqsUpTo(CodeChars, MaxCodeLen)

EvalListTransactions ==
  /\ probe = NoProbe
  /\ \E page \in PageInputs, size \in SizeInputs, total \in TotalInputs,
        dbOk \in BOOLEAN :
       LET ret == ListTransactionsExecute(page, size, total, dbOk)
       IN probe' = [fn |-> "ListTransactions", page |-> page, size |-> size,
                    total |-> total, dbOk |-> dbOk, resp |-> ret.resp,
                    err |-> ret.err, called |-> ret.called]
  /\ UNCHANGED <<transactions, exchangeRates, pc, request, transaction,
                 exchangeRate, response, calls, ratesBefore, remembered,
                 source, repo>>

\* NewCurrencyCode(raw), and NewCurrencyCode of what it returned
EvalNewCurrencyCode ==
  /\ probe = NoProbe
  /\ \E raw \in CodeInputs :
       LET ret == NewCurrencyCode(raw)
       IN probe' = [fn |-> "NewCurrencyCode", raw |-> raw, code |-> ret.code,
                    err |-> ret.err, again |-> NewCurrencyCode(ret.code)]
  /\ UNCHANGED <<transactions, exchangeRates, pc, request, transaction,
                 exchangeRate, response, calls, ratesBefore, remembered,
                 source, repo>>

\* parseExchangeRate on a body the Treasury API answered with
EvalParseExchangeRate ==
  /\ probe = NoProbe
  /\ \E records \in TreasuryResponses, transactionDate \in PurchaseDates,
        to \in {BRL, EUR} :
       LET ret == ParseExchangeRate(records, NewUUID({}), USD, to, transactionDate)
       IN probe' = [fn |-> "parseExchangeRate", records |-> records,
                    transactionDate |-> transactionDate, to |-> to,
                    rate |-> ret.rate, err |-> ret.err]
  /\ UNCHANGED <<transactions, exchangeRates, pc, request, transaction,
                 exchangeRate, response, calls, ratesBefore, remembered,
                 source, repo>>

NextValues ==
  EvalListTransactions \/ EvalNewCurrencyCode \/ EvalParseExchangeRate \/ EvalDone

SpecValues == Init /\ [][NextValues]_vars

(***************************************************************************)
(* Concurrent conversions of one purchase to one currency, against a       *)
(* Treasury API whose records are fixed: both request slots serve the      *)
(* same request, again and again.                                          *)
(***************************************************************************)
\* the purchase all requests convert, dated T
RacePurchase(T) == [id |-> 1, descLen |-> 10, date |-> T, amount |-> 10000]
RaceTarget == BRL

\* records the Treasury API can hold: on both ends of the window, with
\* different rates, one of them a rate that Save rejects
RaceRecords ==
  {[date |-> Date(2023, 12, 15, 0), rate |-> 530],
   [date |-> Date(2024, 6, 15, 0), rate |-> 520],
   [date |-> Date(2024, 6, 15, 0), rate |-> 0]}

\* exchange_rate tables without a rate that matches the request: the empty
\* one, one with a rate that is a day too old
RaceTables ==
  {{}, {[id |-> 9, from |-> USD, to |-> RaceTarget, rate |-> 510,
         eff |-> Date(2023, 12, 14, 0)]}}

InitRace ==
  /\ transactions \in {{RacePurchase(T)} : T \in PurchaseDates}
  /\ exchangeRates \in RaceTables
  /\ pc = [p \in Procs |-> "idle"]
  /\ request = [p \in Procs |-> NoRequest]
  /\ transaction = [p \in Procs |-> NoTransaction]
  /\ exchangeRate = [p \in Procs |-> NoRate]
  /\ response = [p \in Procs |-> NoReturn]
  /\ calls = [p \in Procs |-> NoCalls]
  /\ ratesBefore = [p \in Procs |-> {}]
  /\ remembered = NoMemory
  /\ probe = NoProbe
  /\ source \in SeqsUpTo(RaceRecords, MaxRecords)
  /\ repo = NoCall

NextRace ==
  \/ \E p \in Procs, dbOk \in BOOLEAN : BeginWith(p, 1, RaceTarget, dbOk)
  \/ \E p \in Procs : FindLocal(p)
  \/ \E p \in Procs : FetchFixed(p)
  \/ \E p \in Procs : SaveFetchedWith(p, TRUE)
  \/ \E p \in Procs : Finish(p)

SpecRace == InitRace /\ [][NextRace]_vars

(***************************************************************************)
(* Conversions of two purchases with their own dates, one request at a     *)
(* time, against a Treasury API whose records are fixed.                   *)
(***************************************************************************)
\* the dates of the two purchases
FixedDates == <<Date(2024, 6, 14, 0), Date(2024, 6, 15, 0)>>

\* records the Treasury API can hold, each date with its own rate
FixedRecords ==
  {[date |-> Date(2023, 12, 15, 0), rate |-> 510],
   [date |-> Date(2024, 6, 14, 0), rate |-> 520],
   [date |-> Date(2024, 6, 15, 0), rate |-> 530]}

FixedPurchase(id, T) == [id |-> id, descLen |-> 10, date |-> T, amount |-> 10000]

InitFixed ==
  /\ transactions = {FixedPurchase(id, FixedDates[id]) : id \in {1, 2}}
  /\ exchangeRates = {}
  /\ pc = [p \in Procs |-> "idle"]
  /\ request = [p \in Procs |-> NoRequest]
  /\ transaction = [p \in Procs |-> NoTransaction]
  /\ exchangeRate = [p \in Procs |-> NoRate]
  /\ response = [p \in Procs |-> NoReturn]
  /\ calls = [p \in Procs |-> NoCalls]
  /\ ratesBefore = [p \in Procs |-> {}]
  /\ remembered = NoMemory
  /\ probe = NoProbe
  /\ source \in SeqsUpTo(FixedRecords, MaxRecords)
  /\ repo = NoCall

NextFixed ==
  \/ \E p \in Serial, id \in {1, 2}, target \in {BRL, EUR}, dbOk \in BOOLEAN :
       BeginWith(p, id, target, dbOk)
  \/ \E p \in Serial : FindLocal(p)
  \/ \E p \in Serial : FetchFixed(p)
  \/ \E p \in Serial : SaveFetched(p)
  \/ \E p \in Serial : Finish(p)

SpecFixed == InitFixed /\ [][NextFixed]_vars

(***************************************************************************)
(* Conversions of one purchase by requests that overlap, on a table that   *)
(* can hold several rates of the same effective date.                      *)
(***************************************************************************)
\* rows the exchange_rate table can start with: each id on one of two days
\* of the window, each with a rate of its own
TieRows ==
  {[id |-> i, from |-> USD, to |-> RaceTarget, rate |-> 500 + 10 * i, eff |-> e] :
     i \in 1..MaxRates, e \in {Date(2024, 6, 14, 0), Date(2024, 6, 15, 0)}}

TieTables ==
  {t \in SUBSET TieRows : \A a, b \in t : a.id = b.id => a = b}

\* what the Treasury API holds: nothing, or one rate of the purchase's day
TieSources == {<<>>, <<[date |-> Date(2024, 6, 15, 0), rate |-> 540]>>}

InitTies ==
  /\ transactions \in {{RacePurchase(T)} : T \in PurchaseDates}
  /\ exchangeRates \in TieTables
  /\ pc = [p \in Procs |-> "idle"]
  /\ request = [p \in Procs |-> NoRequest]
  /\ transaction = [p \in Procs |-> NoTransaction]
  /\ exchangeRate = [p \in Procs |-> NoRate]
  /\ response = [p \in Procs |-> NoReturn]
  /\ calls = [p \in Procs |-> NoCalls]
  /\ ratesBefore = [p \in Procs |-> {}]
  /\ remembered = NoMemory
  /\ probe = NoProbe
  /\ source \in TieSources
  /\ repo = NoCall

NextTies ==
  \/ \E p \in Procs, dbOk \in BOOLEAN : BeginWith(p, 1, RaceTarget, dbOk)
  \/ \E p \in Procs : FindLocal(p)
  \/ \E p \in Procs : FetchFixed(p)
  \/ \E p \in Procs : SaveFetchedWith(p, TRUE)
  \/ \E p \in Procs : Finish(p)

SpecTies == InitTies /\ [][NextTies]_vars

(***************************************************************************)
(* The repositories used directly: a caller creates purchases and calls    *)
(* Save, Update and Delete of both stores, one call at a time, while       *)
(* other callers delete.  Update is two statements, Exists and db.Save,    *)
(* and a Delete can run between them.                                      *)
(***************************************************************************)
\* purchases handed to Update
TxInputs ==
  [id : TxIdPool, descLen : {0, 10, 51},
   date : {Date(2024, 6, 15, 1), ZeroTime}, amount : {0, 250}]

\* rates handed to Save and Update
RateInputs ==
  [id : 1..MaxRates, from : {USD, <<"U", "S">>}, to : {BRL, USD},
   rate : {530, 520, 0}, eff : {Date(2024, 6, 15, 0), ZeroTime}]

\* gorm's db.Save(row) on a table keyed by id: UPDATE the row with that
\* primary key and, when no row was affected, INSERT it
GormSave(table, row) == {r \in table : r.id # row.id} \cup {row}

\* CreateTransactionUseCase.Execute called by the caller
CreateCall ==
  /\ repo.step = "idle"
  /\ Cardinality(transactions) < MaxTx
  /\ \E descLen \in DescLenInputs, date \in DateInputs,
        amount \in AmountInputs, dbOk \in BOOLEAN :
       LET made == CreateTransactionExecute(descLen, date, amount, dbOk)
       IN /\ transactions' = made.table
          /\ repo' = [NoCall EXCEPT !.op = "Create", !.tx = made.entity,
                                    !.err = made.err]
  /\ UNCHANGED <<exchangeRates, pc, request, transaction, exchangeRate,
                 response, calls, ratesBefore, remembered, probe, source>>

\* sqliteTransactionRepository.Update up to its write: Validate and Exists
TxUpdateExists ==
  /\ repo.step = "idle"
  /\ \E t \in TxInputs, dbOk \in BOOLEAN :
       repo' = [NoCall EXCEPT
                  !.op = "TxUpdate", !.tx = t,
                  !.step = IF TransactionValidate(t) = "" /\ dbOk
                                /\ (\E r \in transactions : r.id = t.id)
                             THEN "write" ELSE "idle",
                  !.err = IF TransactionValidate(t) # "" THEN TransactionValidate(t)
                          ELSE IF ~dbOk THEN "database error"
                          ELSE IF ~(\E r \in transactions : r.id = t.id)
                            THEN "transaction not found"
                          ELSE ""]
  /\ UNCHANGED <<transactions, exchangeRates, pc, request, transaction,
                 exchangeRate, response, calls, ratesBefore, remembered, probe,
                 source>>

\* sqliteTransactionRepository.Update: r.db.Save(transaction)
TxUpdateSave ==
  /\ repo.step = "write" /\ repo.op = "TxUpdate"
  /\ \E dbOk \in BOOLEAN :
       /\ transactions' = IF dbOk THEN GormSave(transactions, repo.tx)
                                  ELSE transactions
       /\ repo' = [repo EXCEPT !.step = "idle",
                               !.err = IF dbOk THEN "" ELSE "database error"]
  /\ UNCHANGED <<exchangeRates, pc, request, transaction, exchangeRate,
                 response, calls, ratesBefore, remembered, probe, source>>

\* sqliteTransactionRepository.Delete by another caller (its error, "not
\* found" for an id that is not stored, goes to that caller)
TxDelete ==
  /\ \E id \in TxIdPool : transactions' = {r \in transactions : r.id # id}
  /\ UNCHANGED <<exchangeRates, pc, request, transaction, exchangeRate,
                 response, calls, history>>

\* sqliteExchangeRateRepository.Save called by the caller
RateSaveCall ==
  /\ repo.step = "idle"
  /\ \E er \in RateInputs, dbOk \in BOOLEAN :
       LET saved == RateSave(er, dbOk)
       IN /\ exchangeRates' = saved.table
          /\ repo' = [NoCall EXCEPT !.op = "RateSave", !.rate = er,
                                    !.err = saved.err]
  /\ UNCHANGED <<transactions, pc, request, transaction, exchangeRate,
                 response, calls, ratesBefore, remembered, probe, source>>

\* sqliteExchangeRateRepository.Update up to its write: Validate and Exists
RateUpdateExists ==
  /\ repo.step = "idle"
  /\ \E er \in RateInputs, dbOk \in BOOLEAN :
       repo' = [NoCall EXCEPT
                  !.op = "RateUpdate", !.rate = er,
                  !.step = IF ExchangeRateValidate(er) = "" /\ dbOk
                                /\ (\E r \in exchangeRates : r.id = er.id)
                             THEN "write" ELSE "idle",
                  !.err = IF ExchangeRateValidate(er) # "" THEN ExchangeRateValidate(er)
                          ELSE IF ~dbOk THEN "database error"
                          ELSE IF ~(\E r \in exchangeRates : r.id = er.id)
                            THEN "exchange rate not found"
                          ELSE ""]
  /\ UNCHANGED <<transactions, exchangeRates, pc, request, transaction,
                 exchangeRate, response, calls, ratesBefore, remembered, probe,
                 source>>

\* sqliteExchangeRateRepository.Update: r.db.Save(exchangeRate)
RateUpdateSave ==
  /\ repo.step = "write" /\ repo.op = "RateUpdate"
  /\ \E dbOk \in BOOLEAN :
       /\ exchangeRates' = IF dbOk THEN GormSave(exchangeRates, repo.rate)
                                   ELSE exchangeRates
       /\ repo' = [repo EXCEPT !.step = "idle",
                               !.err = IF dbOk THEN "" ELSE "database error"]
  /\ UNCHANGED <<transactions, pc, request, transaction, exchangeRate,
                 response, calls, ratesBefore, remembered, probe, source>>

\* sqliteExchangeRateRepository.Delete by another caller
RateDelete ==
  /\ \E id \in 1..MaxRates : exchangeRates' = {r \in exchangeRates : r.id # id}
  /\ UNCHANGED <<transactions, pc, request, transaction, exchangeRate,
                 response, calls, history>>

\* the calls on the purchase store
NextPurchases ==
  \/ CreateCall
  \/ TxUpdateExists
  \/ TxUpdateSave
  \/ TxDelete

SpecPurchases == Init /\ [][NextPurchases]_vars

\* the calls on the exchange-rate store
NextRates ==
  \/ RateSaveCall
  \/ RateUpdateExists
  \/ RateUpdateSave
  \/ RateDelete

SpecRates == Init /\ [][NextRates]_vars

(***************************************************************************)
(* Properties                                                              *)
(***************************************************************************)
Done(p) == pc[p] = "done"
Succeeded(p) == Done(p) /\ response[p].err = NoError

\* the stored purchase a request names
Purchase(p) == GetByID(request[p].id)

\* request p has made its local lookup (it passed validation, load and rules)
LookedUp(p) == calls[p].localReads = 1

\* the local lookup of request p failed in the database
LocalReadFailed(p) ==
  Done(p) /\ response[p].err = <<"failed to find exchange rate",
                                 "error searching local exchange rates",
                                 "database error">>

\* rates of table that are valid for converting a purchase dated T to target
ValidRates(table, target, T) ==
  {r \in table : r.from = USD /\ r.to = target /\ IsWithinDateRange(r, T)}

InvalidConversionError ==
  <<"conversion validation failed", "cannot convert USD transaction to USD">>

\* C1: every Conversion Result carries an effective date E with
\* T - 6 calendar months <= E <= T, T the date of the stored purchase,
\* whether the rate came from the local store or from the Treasury.
C1_EffectiveDateInWindow ==
  \A p \in Procs :
    (Done(p) /\ response[p].resp.has) =>
      LET T == Purchase(p).date
          E == response[p].resp.eff
      IN /\ Purchase(p) # NoTransaction
         /\ Key(SubSixMonths(T)) <= Key(E)
         /\ Key(E) <= Key(T)

\* a result from the Treasury whose effective date is the lower end of the window
C1_Witness ==
  \E p \in Procs :
    /\ Done(p) /\ response[p].resp.has /\ calls[p].extCalls = 1
    /\ response[p].resp.eff = SubSixMonths(Purchase(p).date)

\* C2: both ends of the validity window are inclusive for every purchase
\* date, also one with a time of day: a rate effective (at midnight) on the
\* purchase's calendar day or on the day 6 calendar months before it is
\* valid, a rate one day earlier or one day after the purchase is not.
C2_BothBoundsInclusive ==
  probe.fn = "IsWithinDateRange" =>
    (probe.within <=> probe.place \in {"same day", "six months before"})

\* C3: when the local store holds a rate valid for the purchase date, the
\* conversion calls no Treasury, writes nothing and uses a stored rate.
C3_LocalHitStaysLocal ==
  \A p \in Procs :
    (LookedUp(p)
       /\ ValidRates(ratesBefore[p], request[p].target, transaction[p].date) # {}) =>
      /\ Done(p)
      /\ calls[p].extCalls = 0
      /\ calls[p].saves = 0
      /\ exchangeRates = ratesBefore[p]
      /\ \/ LocalReadFailed(p)
         \/ /\ Succeeded(p)
            /\ \E r \in ValidRates(ratesBefore[p], request[p].target,
                                   transaction[p].date) :
                 /\ response[p].resp.rate = r.rate
                 /\ response[p].resp.eff = r.eff

\* a conversion served from the store while the store also holds a rate of
\* another currency
C3_Witness ==
  \E p \in Procs :
    /\ Succeeded(p) /\ calls[p].localHit
    /\ \E r \in exchangeRates : r.to # request[p].target

\* request p went past a local lookup that found no valid rate
LocalMiss(p) ==
  /\ LookedUp(p)
  /\ ~LocalReadFailed(p)
  /\ ValidRates(ratesBefore[p], request[p].target, transaction[p].date) = {}

\* the Treasury answered request p with a rate
FetchSucceeded(p) == calls[p].saves = 1

\* the rows the table has gained since request p began
Gained(p) == exchangeRates \ ratesBefore[p]

\* the only row gained is the rate the result of p uses
GainedRateUsed(p) ==
  /\ ratesBefore[p] \subseteq exchangeRates
  /\ Cardinality(Gained(p)) = 1
  /\ \A r \in Gained(p) :
       /\ r = exchangeRate[p]
       /\ r.to = request[p].target
       /\ response[p].resp.rate = r.rate
       /\ response[p].resp.eff = r.eff

\* C4 as stated: on a local miss the Treasury is queried exactly once and,
\* when it answers with a rate, the store gains exactly one entry, the rate
\* used in the result.
C4_MissCachesOneEntry ==
  \A p \in Procs :
    (Done(p) /\ LocalMiss(p)) =>
      /\ calls[p].extCalls = 1
      /\ FetchSucceeded(p) => GainedRateUsed(p)

\* C4 amended: on a local miss the Treasury is queried exactly once; when it
\* answers with a rate and the cache write succeeds the store gains exactly
\* one entry, the rate used in the result; when the cache write fails the
\* store is unchanged.
C4_MissCachesOneEntryIfSaved ==
  \A p \in Procs :
    (Done(p) /\ LocalMiss(p)) =>
      /\ calls[p].extCalls = 1
      /\ FetchSucceeded(p) =>
           IF calls[p].saved = 1
             THEN GainedRateUsed(p)
             ELSE exchangeRates = ratesBefore[p]

\* a miss whose fetched rate was added to a store that held another rate
C4_Witness ==
  \E p \in Procs :
    /\ Done(p) /\ LocalMiss(p) /\ calls[p].saved = 1
    /\ ratesBefore[p] # {}

\* C5: when the write of the fetched rate fails, the conversion succeeds
\* with the result the fetched rate gives: whether or not the write has
\* succeeded, the result is the fetched rate, its effective date and the
\* purchase amount converted with it.
C5_CacheFailureIsHarmless ==
  \A p \in Procs :
    (Done(p) /\ FetchSucceeded(p)) =>
      /\ Succeeded(p)
      /\ response[p].resp.has
      /\ response[p].resp.rate = exchangeRate[p].rate
      /\ response[p].resp.eff = exchangeRate[p].eff
      /\ response[p].resp.converted =
           ConvertAmount(Rate(exchangeRate[p]), Purchase(p).amount, Fused)

\* a conversion whose valid, positive rate the database refused to store
C5_Witness ==
  \E p \in Procs :
    /\ Done(p) /\ FetchSucceeded(p) /\ calls[p].saved = 0
    /\ exchangeRate[p].rate > 0
    /\ response[p].resp.converted > 0

\* request p is a later conversion of the purchase and currency of the
\* remembered conversion
LaterSame(p) ==
  /\ Done(p)
  /\ remembered.set /\ ~remembered.fresh
  /\ request[p] = remembered.request

SameResult(p) ==
  /\ response[p].resp.rate = remembered.resp.rate
  /\ response[p].resp.eff = remembered.resp.eff
  /\ response[p].resp.converted = remembered.resp.converted

C7_BaseCurrencyRejected ==
  \A p \in Procs :
    (Done(p) /\ request[p].target = USD /\ transaction[p] # NoTransaction) =>
      /\ transaction[p] \in transactions
      /\ response[p].err = InvalidConversionError
      /\ ~response[p].resp.has
      /\ calls[p].localReads = 0
      /\ calls[p].extCalls = 0
      /\ calls[p].saves = 0
      /\ exchangeRates = ratesBefore[p]

\* a conversion to USD refused while the store holds rates
C7_Witness ==
  \E p \in Procs :
    /\ Done(p) /\ request[p].target = USD /\ transaction[p] # NoTransaction
    /\ exchangeRates # {}

\* C8: a nil purchase id or a target currency that is not a well-formed
\* 3-letter code fails with ValidationError before the purchase store is
\* read, also when the id names no stored purchase.
C8_InputsCheckedFirst ==
  \A p \in Procs :
    (Done(p) /\ (request[p].id = NilId \/ ~IsValid(request[p].target))) =>
      /\ response[p].err # NoError
      /\ Head(response[p].err) = "validation failed"
      /\ calls[p].txReads = 0

\* C9: Execute returns either a complete result and no error, or an error
\* and no result; nothing is returned before it has finished.
C9_ResultXorError ==
  \A p \in Procs :
    /\ ~Done(p) => response[p] = NoReturn
    /\ Done(p) =>
         \/ /\ response[p].err = NoError
            /\ response[p].resp.has
            /\ response[p].resp.txid = request[p].id
            /\ response[p].resp.txid # NilId
            /\ response[p].resp.date = Purchase(p).date
            /\ response[p].resp.amount = Purchase(p).amount
            /\ response[p].resp.target = request[p].target
            /\ response[p].resp.eff # ZeroTime
         \/ /\ response[p].err # NoError
            /\ response[p].resp = NoResponse

\* a request whose rate resolution failed and that returned the error
\* with no response beside it
C9_Witness ==
  \E p \in Procs :
    /\ Done(p) /\ calls[p].extCalls = 1
    /\ response[p].err # NoError /\ response[p].resp = NoResponse

\* a step of a conversion request
ConvertStep == \E p \in Procs : pc'[p] # pc[p]

\* C10: a convert call leaves the purchase store and every existing
\* exchange-rate entry unchanged; all it can do to the stores is add one
\* exchange-rate entry.
C10_ConvertFrame ==
  /\ [][ConvertStep =>
          /\ transactions' = transactions
          /\ exchangeRates \subseteq exchangeRates'
          /\ Cardinality(exchangeRates' \ exchangeRates) <= 1]_vars
  /\ [](\A p \in Procs :
          /\ calls[p].saved <= 1
          /\ pc[p] # "idle" =>
               /\ ratesBefore[p] \subseteq exchangeRates
               /\ Cardinality(exchangeRates \ ratesBefore[p]) = calls[p].saved)

\* a call that added a second rate of a currency pair to the store
C10_Witness ==
  \E p \in Procs :
    /\ Done(p) /\ calls[p].saved = 1
    /\ \E r \in ratesBefore[p] : r.to = request[p].target

\* the HTTP status the convert endpoint answers request p with
Status(p) == ConvertTransactionStatus(request[p], response[p])

\* the Treasury answered request p, and with no rate it could use
NoRateOffered(p) ==
  /\ Done(p) /\ LocalMiss(p)
  /\ calls[p].extCalls = 1 /\ calls[p].answered
  /\ ~FetchSucceeded(p)

\* C11: when the local store holds no rate valid for the purchase and the
\* Treasury answers with an empty list or with no observation inside the
\* window, the conversion fails with the no-suitable-rate error and the
\* endpoint answers 422.
C11_NoRateIs422 ==
  \A p \in Procs :
    NoRateOffered(p) =>
      /\ response[p].resp = NoResponse
      /\ isExchangeRateNotFoundError(response[p].err)
      /\ Status(p) = 422

\* the Treasury returned observations, none of them usable, while the store
\* holds a rate of the target currency that is outside the purchase's window
C11_Witness ==
  \E p \in Procs :
    /\ NoRateOffered(p)
    /\ contains(response[p].err, "no suitable exchange rate found")
    /\ \E r \in exchangeRates : r.to = request[p].target

\* C12: every failure of the Treasury exchange (transport error, timeout,
\* non-200 status, a body that does not parse) is answered with 500.
C12_SourceFailureIs500 ==
  \A p \in Procs :
    (Done(p) /\ calls[p].extCalls = 1 /\ ~calls[p].answered) =>
      Status(p) = 500

\* the purchase store answered the read of request p
TxReadAnswered(p) ==
  /\ calls[p].txReads = 1
  /\ response[p].err # <<"failed to get transaction", "database error">>

Stored(id) == \E t \in transactions : t.id = id

\* C13 as stated: a get or convert request whose non-nil id names no stored
\* purchase fails with the not-found error and is answered 404, and a
\* convert makes no rate lookup (the purchase store answering its reads).
C13_AbsentPurchaseIs404 ==
  /\ (probe.fn = "GetTransaction" /\ probe.id # NilId /\ ~Stored(probe.id)
       /\ probe.dbOk) =>
        /\ isNotFoundError(probe.err)
        /\ probe.status = 404
  /\ \A p \in Procs :
        (Done(p) /\ request[p].id # NilId /\ ~Stored(request[p].id)
           /\ response[p].err # <<"failed to get transaction", "database error">>) =>
          /\ isNotFoundError(response[p].err)
          /\ Status(p) = 404
          /\ calls[p].localReads = 0 /\ calls[p].extCalls = 0

\* C13 amended: a get request whose non-nil id names no stored purchase, and
\* a convert request with such an id and a well-formed target currency,
\* fail with the not-found error and are answered 404 when the purchase
\* store answers the read; a convert request whose id names no stored
\* purchase makes no rate lookup, whatever it is answered.
C13_AbsentPurchaseIs404IfValid ==
  /\ (probe.fn = "GetTransaction" /\ probe.id # NilId /\ ~Stored(probe.id)
       /\ probe.dbOk) =>
        /\ isNotFoundError(probe.err)
        /\ probe.found = NoTransaction
        /\ probe.status = 404
  /\ \A p \in Procs :
        (Done(p) /\ request[p].id # NilId /\ ~Stored(request[p].id)) =>
          /\ response[p].resp = NoResponse
          /\ calls[p].localReads = 0 /\ calls[p].extCalls = 0
          /\ (IsValid(request[p].target) /\ TxReadAnswered(p)) =>
               /\ isNotFoundError(response[p].err)
               /\ Status(p) = 404

\* a convert to BRL of an id that names no purchase, answered 404 while
\* the store holds another purchase and a rate for BRL
C13_Witness ==
  \E p \in Procs :
    /\ Done(p) /\ request[p].id # NilId /\ ~Stored(request[p].id)
    /\ request[p].target = BRL /\ Status(p) = 404
    /\ transactions # {}
    /\ \E r \in exchangeRates : r.to = BRL

\* a get of an id that names no purchase, answered 404 while the store
\* holds another purchase
C13_GetWitness ==
  /\ probe.fn = "GetTransaction" /\ probe.id # NilId /\ ~Stored(probe.id)
  /\ probe.status = 404 /\ transactions # {}

\* the product of the numbers of a sequence, as a natural number of any size
RECURSIVE BigProduct(_)
BigProduct(ks) ==
  IF ks = <<>> THEN <<1>> ELSE BigMulSmall(BigProduct(Tail(ks)), Head(ks), 0)

\* amount * n / (divs[1] * ... ) rounded to the nearest integer, halves up,
\* in exact arithmetic
ExactConverted(amount, r) ==
  LET twice == BigMulSmall(BigMul(BigFromInt(amount), BigFromInt(r.n)), 2, 0)
  IN BigToInt(BigDivAll(BigAdd(twice, BigProduct(r.divs)), r.divs \o <<2>>, FALSE).q)

\* C14: the converted amount is the amount times the rate rounded once to
\* the nearest cent, halves up, for every positive amount and rate.
C14_ConvertedIsRoundedProduct ==
  probe.fn = "ConvertAmount" =>
    probe.converted = ExactConverted(probe.amount, probe.rate)

\* C15: NewMoney(d) is the integer nearest to d * 100, exact halves rounded
\* up, negative amounts included.
C15_NewMoneyRoundsHalfUp ==
  probe.fn = "NewMoney" => probe.money = (probe.mills + 5) \div 10

\* C16: NewMoney(d).Dollars() differs from d by at most 0.01, for every d.
C16_RoundTripWithinCent ==
  probe.fn = "NewMoney" => probe.within

\* a list request was answered with a response
Listed == probe.fn = "ListTransactions" /\ probe.err = NoError

\* C17: for every total >= 0 and size in 1..100 the response's totalPages
\* is the ceiling of total / size: the least number of pages of that size
\* that hold total rows; 0 for no row, 2 for 20 rows by 10, 3 for 21 by 10.
C17_TotalPagesIsCeiling ==
  Listed =>
    LET r == probe.resp
    IN /\ r.size \in 1..100 /\ r.total = probe.total
       /\ r.totalPages * r.size >= r.total
       /\ (r.totalPages - 1) * r.size < r.total \/ r.total = 0
       /\ r.total = 0 => r.totalPages = 0
       /\ (r.total = 20 /\ r.size = 10) => r.totalPages = 2
       /\ (r.total = 21 /\ r.size = 10) => r.totalPages = 3

\* 21 rows listed 10 a page: 3 pages
C17_Witness ==
  /\ Listed /\ probe.resp.total = 21 /\ probe.resp.size = 10
  /\ probe.resp.totalPages = 3

\* u in A-Z is character c in upper case
UpperOf(c, u) ==
  \E k \in 1..26 :
    /\ UpperAlphabet[k] = u
    /\ c \in {u, LowerAlphabet[k]} \/ (c = "U+017F" /\ u = "S")

\* raw is white space, then at i..i+2 three characters whose upper case is
\* in A-Z, then white space
CodeAt(raw, i) ==
  /\ i >= 1 /\ i + 2 <= Len(raw)
  /\ \A k \in 1..Len(raw) :
       IF k < i \/ k > i + 2 THEN raw[k] \in WhiteSpace
       ELSE \E u \in UpperLetters : UpperOf(raw[k], u)

\* C18: NewCurrencyCode(raw) succeeds exactly when raw, trimmed and in
\* upper case, is 3 characters in A-Z; it then returns that value, which is
\* valid and parses to itself; otherwise it returns the empty code and an
\* error.
C18_ParseNormalizes ==
  probe.fn = "NewCurrencyCode" =>
    IF \E i \in 1..Len(probe.raw) : CodeAt(probe.raw, i)
      THEN LET i == CHOOSE i \in 1..Len(probe.raw) : CodeAt(probe.raw, i)
           IN /\ probe.err = NoError
              /\ Len(probe.code) = 3
              /\ \A k \in 1..3 : UpperOf(probe.raw[i + k - 1], probe.code[k])
              /\ IsValid(probe.code)
              /\ probe.again = [code |-> probe.code, err |-> NoError]
      ELSE probe.err # NoError /\ probe.code = <<>>

\* a code in lower case between spaces
C18_Witness ==
  /\ probe.fn = "NewCurrencyCode" /\ probe.err = NoError
  /\ probe.raw = <<" ", "U", "U+017F", "d", " ">>
  /\ probe.code = <<"U", "S", "D">>

\* the observations of a response that parse and are valid for the date
ValidObservations(records, to, transactionDate) ==
  {i \in 1..Len(records) :
     /\ RecordParses(records[i])
     /\ IsWithinDateRange(ParseRecord(records[i], NewUUID({}), USD, to),
                          transactionDate)}

\* C19: from the observations the Treasury API returns, in whatever order,
\* parseExchangeRate selects one with the greatest date among those that
\* are valid for the purchase date, and never one outside the window.
C19_SelectsLatestValid ==
  probe.fn = "parseExchangeRate" =>
    LET valid == ValidObservations(probe.records, probe.to, probe.transactionDate)
    IN IF valid = {}
         THEN probe.rate = NoRate
         ELSE /\ probe.rate # NoRate
              /\ IsWithinDateRange(probe.rate, probe.transactionDate)
              /\ \A i \in valid : Key(probe.records[i].date) <= Key(probe.rate.eff)

\* the response lists its observations from the latest to the earliest
SortedDescending(records) ==
  \A i, j \in 1..Len(records) :
    (i < j /\ RecordParses(records[i]) /\ RecordParses(records[j]))
      => Key(records[i].date) >= Key(records[j].date)

\* the selection is the latest valid observation when the response is
\* sorted by date, latest first
C19_SelectsLatestValidOfSorted ==
  (probe.fn = "parseExchangeRate" /\ SortedDescending(probe.records))
    => C19_SelectsLatestValid

\* the observation selected is never outside the window
C19_NeverOutsideWindow ==
  (probe.fn = "parseExchangeRate" /\ probe.rate # NoRate)
    => /\ IsWithinDateRange(probe.rate, probe.transactionDate)
       /\ \E i \in ValidObservations(probe.records, probe.to, probe.transactionDate) :
            probe.rate.eff = probe.records[i].date /\ probe.rate.rate = probe.records[i].rate

\* a stored rate the lookup FindRateForConversion(from, to, T) may return
Qualifies(r, from, to, T) ==
  /\ r.from = from /\ r.to = to
  /\ Key(SubSixMonths(T)) <= Key(r.eff) /\ Key(r.eff) <= Key(T)

\* the step of p is the local lookup, and the query did not fail
LocalLookupStep(p) ==
  /\ pc[p] = "find" /\ calls'[p].localReads = calls[p].localReads + 1
  /\ ~(pc'[p] = "done" /\ response'[p].err # NoError
         /\ response'[p].err[2] = "error searching local exchange rates")

C20_MissWitness ==
  \E p \in Procs :
    /\ pc[p] = "fetch"
    /\ \E o \in exchangeRates :
         o.to = request[p].target /\ Key(o.eff) < Key(SubSixMonths(transaction[p].date))

\* C22: when the call of the Treasury API fails, the conversion fails with
\* that error after exactly one call, returns no result and leaves the
\* exchange_rate table as it was.
C22_SourceFailureFailsFast ==
  \A p \in Procs :
    (Done(p) /\ calls[p].extCalls > 0 /\ ~calls[p].answered) =>
      /\ calls[p].extCalls = 1
      /\ \E f \in TreasuryFailures :
           response[p].err = <<"failed to find exchange rate",
                               "failed to fetch exchange rate from Treasury API">> \o f
      /\ response[p].resp = NoResponse
      /\ calls[p].saves = 0
      /\ exchangeRates = ratesBefore[p]

\* the same when the Treasury API answers with no usable observation
C22_NoRateFailsFast ==
  \A p \in Procs :
    (Done(p) /\ calls[p].extCalls > 0 /\ calls[p].answered /\ calls[p].saves = 0) =>
      /\ calls[p].extCalls = 1
      /\ response[p].err # NoError /\ response[p].resp = NoResponse
      /\ exchangeRates = ratesBefore[p]

\* a conversion that failed on a timeout of the Treasury API, with a rate of
\* another currency in the table
C22_Witness ==
  \E p \in Procs :
    /\ Done(p) /\ calls[p].extCalls = 1 /\ ~calls[p].answered
    /\ response[p].err[Len(response[p].err)] =
         "context deadline exceeded (Client.Timeout exceeded while awaiting headers)"
    /\ exchangeRates # {}

\* C23: the rate used in a conversion result has a strictly positive value,
\* source USD, the requested target and an effective date that is set, also
\* when it comes straight from the Treasury response.
C23_ResultRateIsValid ==
  \A p \in Procs :
    Succeeded(p) =>
      /\ exchangeRate[p].rate > 0 /\ response[p].resp.rate > 0
      /\ exchangeRate[p].from = USD
      /\ exchangeRate[p].to = request[p].target
      /\ exchangeRate[p].eff # ZeroTime /\ response[p].resp.eff # ZeroTime

\* the same for the rates the local lookup returned
C23_LocalRateIsValid ==
  \A p \in Procs :
    (Succeeded(p) /\ calls[p].localHit) =>
      /\ exchangeRate[p].rate > 0 /\ response[p].resp.rate > 0
      /\ exchangeRate[p].from = USD
      /\ exchangeRate[p].to = request[p].target
      /\ exchangeRate[p].eff # ZeroTime

\* C21: two concurrent conversions of the same purchase and currency that
\* find no local rate, served by a Treasury API that answers both alike,
\* return the same rate and effective date under every interleaving, and
\* so does every later conversion of that purchase, also when two cache
\* entries were written.  remembered is the first result that came from the
\* Treasury API.
C21_RaceIsHarmless ==
  /\ \A p \in Procs :
       Succeeded(p) =>
         /\ remembered.set
         /\ response[p].resp.rate = remembered.resp.rate
         /\ response[p].resp.eff = remembered.resp.eff
  /\ \A p, q \in Procs :
       (Succeeded(p) /\ Succeeded(q)) =>
         /\ response[p].resp.rate = response[q].resp.rate
         /\ response[p].resp.eff = response[q].resp.eff

\* both requests missed, called the Treasury API and wrote their entry
BothCached ==
  \E r1, r2 \in exchangeRates :
    /\ r1.id # r2.id /\ r1.eff = r2.eff /\ r1.rate = r2.rate /\ r1.to = r2.to
    /\ r1.rate = remembered.rate.rate /\ r1.eff = remembered.rate.eff

\* two cache entries were written by the race, and a later conversion is
\* served one of them by the local lookup
C21_Witness ==
  /\ BothCached
  /\ \E p \in Procs :
       /\ Succeeded(p) /\ calls[p].localHit
       /\ ratesBefore[p] = exchangeRates
       /\ response[p].resp.rate = remembered.resp.rate

\* both requests of the race are done, each after its own Treasury call
C21_RaceWitness ==
  \A p \in Procs : Succeeded(p) /\ calls[p].extCalls = 1 /\ calls[p].saved = 1

\* a rate that satisfies the Exchange Rate invariant
ValidRate(r) ==
  /\ Len(r.from) = 3 /\ \A i \in 1..3 : r.from[i] \in UpperLetters
  /\ Len(r.to) = 3 /\ \A i \in 1..3 : r.to[i] \in UpperLetters
  /\ r.from # r.to
  /\ r.rate > 0
  /\ r.eff # ZeroTime

\* C24: after any sequence of Save, Update and Delete calls every stored
\* rate has valid 3-letter source and target codes that differ, a rate
\* above 0 and an effective date; a Save or Update of a rate that violates
\* one of these returns an error and leaves the store as it was.
C24_StoredRatesValid ==
  /\ [](\A r \in exchangeRates : ValidRate(r))
  /\ [][(repo'.op \in {"RateSave", "RateUpdate"} /\ repo' # repo
          /\ ~ValidRate(repo'.rate))
          => (repo'.err # "" /\ repo'.step = "idle"
              /\ exchangeRates' = exchangeRates)]_vars

\* an Update with a rate of 0 was refused while the rate of that id is
\* stored
C24_Witness ==
  /\ repo.op = "RateUpdate" /\ repo.rate.rate = 0
  /\ repo.err = "exchange rate must be positive"
  /\ \E r \in exchangeRates : r.id = repo.rate.id

\* an Update that replaced the stored rate
C24_UpdatedWitness ==
  /\ repo.op = "RateUpdate" /\ repo.step = "idle" /\ repo.err = ""
  /\ repo.rate \in exchangeRates /\ repo.rate.rate = 520
  /\ \E r \in exchangeRates : r.rate = 530

\* a purchase that satisfies the Purchase Record invariant
ValidPurchase(t) ==
  /\ t.descLen >= 1 /\ t.descLen <= 50
  /\ t.date # ZeroTime
  /\ t.amount > 0

\* C25: after any sequence of create and Update operations every stored
\* purchase has a description of 1 to 50 characters, a purchase date and
\* an amount above 0 cents; a create request that violates one of these, or
\* whose amount rounds to 0 cents, is rejected with a validation error and
\* stores nothing.
C25_StoredPurchasesValid ==
  /\ [](\A t \in transactions : ValidPurchase(t))
  /\ [][(repo'.op = "Create" /\ repo' # repo /\ ~ValidPurchase(repo'.tx))
          => (/\ repo'.err \in {"validation failed", "business validation failed"}
              /\ transactions' = transactions)]_vars

\* a create request with an amount of 0.004, which rounds to 0 cents, was
\* rejected by the business validation while a purchase is stored
C25_Witness ==
  /\ repo.op = "Create" /\ repo.tx.amount = 0 /\ repo.tx.descLen = 50
  /\ repo.tx.date # ZeroTime
  /\ repo.err = "business validation failed"
  /\ transactions # {}

\* an Update that replaced a stored purchase
C25_UpdatedWitness ==
  /\ repo.op = "TxUpdate" /\ repo.step = "idle" /\ repo.err = ""
  /\ repo.tx \in transactions /\ repo.tx.descLen = 10

Ids(table) == {r.id : r \in table}

\* C26: Update never adds a record: an Update of a purchase or rate whose
\* id is not stored returns "not found" and leaves the stored ids as they
\* are, also when a Delete of that id runs between Update's existence check
\* and its write.
C26_UpdateNeverAdds ==
  [][/\ (repo'.op = "TxUpdate" /\ repo' # repo) =>
          /\ Ids(transactions') \subseteq Ids(transactions)
          /\ (repo.step = "idle" /\ repo'.tx.id \notin Ids(transactions)) =>
               /\ repo'.step = "idle" /\ repo'.err # ""
               /\ (ValidPurchase(repo'.tx) /\ repo'.err # "database error")
                    => repo'.err = "transaction not found"
     /\ (repo'.op = "RateUpdate" /\ repo' # repo) =>
          /\ Ids(exchangeRates') \subseteq Ids(exchangeRates)
          /\ (repo.step = "idle" /\ repo'.rate.id \notin Ids(exchangeRates)) =>
               /\ repo'.step = "idle" /\ repo'.err # ""
               /\ (ValidRate(repo'.rate) /\ repo'.err # "database error")
                    => repo'.err = "exchange rate not found"]_vars

\* the same without a Delete between the existence check and the write: the
\* id the write is for is still stored
C26_UpdateNeverAddsUnlessDeleted ==
  [][/\ (repo'.op = "TxUpdate" /\ repo' # repo
          /\ (repo.step = "write" => repo.tx.id \in Ids(transactions))) =>
          Ids(transactions') \subseteq Ids(transactions)
     /\ (repo'.op = "RateUpdate" /\ repo' # repo
          /\ (repo.step = "write" => repo.rate.id \in Ids(exchangeRates))) =>
          Ids(exchangeRates') \subseteq Ids(exchangeRates)]_vars

\* C27: ListTransactionsUseCase.Execute replaces page 0 by 1 and size 0 by
\* 20 and rejects page < 0, size < 0 and size > 100 with a validation error
\* without calling the repository; so the page count is only computed with
\* page >= 1 and 1 <= size <= 100, never dividing by zero.
C27_ListRequestChecked ==
  probe.fn = "ListTransactions" =>
    IF probe.page < 0 \/ probe.size < 0 \/ probe.size > 100
      THEN /\ ~probe.called
           /\ probe.err # NoError /\ Head(probe.err) = "validation failed"
      ELSE /\ probe.called
           /\ probe.dbOk <=> probe.err = NoError
           /\ probe.err = NoError =>
                /\ probe.resp.page = (IF probe.page = 0 THEN 1 ELSE probe.page)
                /\ probe.resp.size = (IF probe.size = 0 THEN 20 ELSE probe.size)
                /\ probe.resp.page >= 1
                /\ probe.resp.size >= 1 /\ probe.resp.size <= 100

\* page 0 and size 0 listed as page 1 of 20 rows a page: 21 rows, 2 pages
C27_Witness ==
  /\ Listed /\ probe.page = 0 /\ probe.size = 0
  /\ probe.resp.page = 1 /\ probe.resp.size = 20
  /\ probe.resp.total = 21 /\ probe.resp.totalPages = 2

\* size 101 refused although the database is down: the repository was not
\* called
C27_RejectWitness ==
  /\ probe.fn = "ListTransactions" /\ probe.size = 101 /\ ~probe.dbOk
  /\ probe.err = <<"validation failed", "size cannot exceed 100">>

\* what the Treasury API holding the records of source supplies for the
\* conversion of request p: the rate a conversion on an empty store uses
FreshRate(p) ==
  FetchExchangeRate(USD, request[p].target, transaction[p].date, NewUUID({}),
                    NoError,
                    TreasuryAnswer(source, SubSixMonths(transaction[p].date),
                                   transaction[p].date))

\* request p is over and got as far as its local lookup, which did not fail
Resolved(p) == Done(p) /\ LookedUp(p) /\ ~LocalReadFailed(p)

\* the conversion of p ended as it does on an empty store
AsOnEmptyStore(p) ==
  /\ Succeeded(p) <=> FreshRate(p).err = NoError
  /\ Succeeded(p) =>
       /\ response[p].resp.rate = FreshRate(p).rate.rate
       /\ response[p].resp.eff = FreshRate(p).rate.eff

\* C28 as stated: for fixed records of the Treasury API, a conversion of P
\* to C yields the same rate and effective date whether the store is empty
\* or was filled by any earlier conversions of other purchases.
C28_IndependentOfHistory ==
  \A p \in Procs : Resolved(p) => AsOnEmptyStore(p)

\* C28 amended: a conversion of P to C yields the rate and effective date
\* it yields on an empty store whenever the earlier conversions left no
\* rate for C in the validity window of P; otherwise it returns the latest
\* stored rate for C in that window.
C28_IndependentUnlessCached ==
  \A p \in Procs :
    Resolved(p) =>
      LET rows == {r \in ratesBefore[p] :
                     Qualifies(r, USD, request[p].target, transaction[p].date)}
      IN IF rows = {}
           THEN AsOnEmptyStore(p)
           ELSE /\ Succeeded(p)
                /\ \E r \in rows :
                     /\ response[p].resp.rate = r.rate
                     /\ response[p].resp.eff = r.eff
                     /\ \A o \in rows : Key(o.eff) <= Key(r.eff)

\* a conversion served by the Treasury API as on an empty store, although
\* an earlier conversion of the other purchase left a rate for the same
\* currency, dated after this purchase
C28_Witness ==
  \E p \in Procs :
    /\ Succeeded(p) /\ calls[p].extCalls = 1
    /\ \E r \in ratesBefore[p] :
         r.to = request[p].target /\ Key(r.eff) > Key(transaction[p].date)
    /\ response[p].resp.rate = FreshRate(p).rate.rate

\* C30: for purchase dates T1 <= T2 the lower bound of the window of T1 is
\* not after the lower bound of the window of T2, so a rate that is too old
\* for T1 is outside the window of T2 as well, for the entity's test and
\* for the repository's query.
C30_LowerBoundMonotone ==
  probe.fn = "Windows" =>
    /\ Key(probe.lower1) <= Key(probe.lower2)
    /\ Key(probe.eff) < Key(probe.lower1) =>
         ~probe.within1 /\ ~probe.within2 /\ ~probe.found1 /\ ~probe.found2

\* the lower bounds are in order whenever the day of T1 exists in the month
\* six months earlier
C30_MonotoneWithoutOverflow ==
  (probe.fn = "Windows" /\ probe.lower1.d = probe.first.d) =>
    /\ Key(probe.lower1) <= Key(probe.lower2)
    /\ Key(probe.eff) < Key(probe.lower1) => ~probe.within2 /\ ~probe.found2

\* a rate of 1 March, too old for the purchase of 31 August and valid for
\* the purchase of 1 September
C30_Overflow ==
  /\ probe.fn = "Windows"
  /\ probe.first = Date(2024, 8, 31, 0) /\ probe.second = Date(2024, 9, 1, 0)
  /\ probe.eff = Date(2024, 3, 1, 0)
  /\ probe.lower1 = Date(2024, 3, 2, 0) /\ probe.lower2 = Date(2024, 3, 1, 0)
  /\ ~probe.within1 /\ probe.within2 /\ ~probe.found1 /\ probe.found2

\* request p got its rate from the exchange_rate table, which has had the
\* same rows since the request began
HitOnUnchanged(p) ==
  /\ Done(p) /\ calls[p].localHit
  /\ ratesBefore[p] = exchangeRates

\* the stored rates that share the latest effective date in the window of
\* request p
LatestRows(p) ==
  LET rows == RateRows(exchangeRates, USD, request[p].target, transaction[p].date)
  IN {r \in rows : \A o \in rows : Key(o.eff) <= Key(r.eff)}

C29_ChangedWitness ==
  \E p, q \in Procs :
    /\ Done(p) /\ calls[p].saved = 1
    /\ HitOnUnchanged(q) /\ exchangeRate[q] # NoRate
    /\ ratesBefore[p] # exchangeRates

====
